---------------------------- MODULE Spec2Model ----------------------------
(***************************************************************************)
(* Model of the PM2.5 forecasting pipeline of AtmosAlert                   *)
(* (src/backend/predict_pm25.py): live fetch, synthetic fallback, feature  *)
(* builder, chronological split and training, five-year extrapolation and  *)
(* the FEV1 mapping.                                                       *)
(*                                                                         *)
(* Number representation.  Python floats are modelled in fixed point:      *)
(*   concentrations           integers in 0.01 ug/m3   ("centi")           *)
(*   sines, cosines, factors  integers in 0.001        ("milli")           *)
(*   lung volumes             integers in 0.001 ml                         *)
(*   timestamps               integer day numbers, day 0 = 1970-01-01      *)
(* The time of day of a timestamp is not modelled: every date operation    *)
(* of the code (timedelta(days=k), .dt.year, strftime("%Y-%m-%d"), .days)  *)
(* leaves it alone or drops it.                                            *)
(* NaN and None are out-of-band integers, because a column holds either a  *)
(* number or one of them.                                                  *)
(***************************************************************************)
EXTENDS Integers, Sequences, FiniteSets, TLC

NaN  == -999999          \* float("nan") / pandas NA in a numeric column
None == -888888          \* Python None / an absent key of a document

IsNum(v) == v # NaN /\ v # None

(***************************************************************************)
(* Bounds of the model.                                                    *)
(***************************************************************************)
MaxLen   == 33           \* longest series (live hits or synthetic days)
MaxTicks == 1            \* days the clock may advance
MaxPasses == 2           \* times a check process may be started
LastHour == 6            \* hours the alert service is followed for
SchedHours == 2          \* hours the scheduler is followed for

(***************************************************************************)
(* Numeric helpers.                                                        *)
(***************************************************************************)
Abs(x) == IF x < 0 THEN -x ELSE x

Min2(a, b) == IF a <= b THEN a ELSE b

Max2(a, b) == IF a >= b THEN a ELSE b

\* round(x / unit) to the nearest integer, ties to even: Python's round()
RoundHalfEven(x, unit) ==
    LET q == x \div unit
        r == x % unit
    IN  IF 2 * r < unit THEN q
        ELSE IF 2 * r > unit THEN q + 1
        ELSE IF q % 2 = 0 THEN q ELSE q + 1

RECURSIVE SqrtIter(_, _)
SqrtIter(x, r) ==
    LET n == (r + x \div r) \div 2
    IN  IF n >= r THEN r ELSE SqrtIter(x, n)

\* floor(sqrt(x)) by Newton's iteration
ISqrt(x) == IF x <= 0 THEN 0 ELSE SqrtIter(x, x)

\* the sum of a sequence, by halves
RECURSIVE SumSeq(_)
SumSeq(s) ==
    IF s = <<>> THEN 0
    ELSE IF Len(s) = 1 THEN s[1]
    ELSE LET h == Len(s) \div 2
         IN  SumSeq(SubSeq(s, 1, h)) + SumSeq(SubSeq(s, h + 1, Len(s)))

\* the last k elements of s (all of s when it is shorter): Series.tail(k)
TailK(s, k) == IF Len(s) <= k THEN s ELSE SubSeq(s, Len(s) - k + 1, Len(s))

(***************************************************************************)
(* Calendar.  pandas' .dt accessors and strftime are conversions from an   *)
(* instant to civil fields; they are computed here from the day number by  *)
(* the proleptic Gregorian rules.                                          *)
(***************************************************************************)
IsLeap(y) == (y % 4 = 0 /\ y % 100 # 0) \/ y % 400 = 0

\* day number of the civil date y-m-d
DaysFromCivil(y, m, d) ==
    LET yy  == IF m <= 2 THEN y - 1 ELSE y
        era == yy \div 400
        yoe == yy - era * 400
        mp  == IF m > 2 THEN m - 3 ELSE m + 9
        doy == (153 * mp + 2) \div 5 + d - 1
        doe == yoe * 365 + yoe \div 4 - yoe \div 100 + doy
    IN  era * 146097 + doe - 719468

\* <<year, month, day>> of a day number
CivilFromDays(z0) ==
    LET z   == z0 + 719468
        era == z \div 146097
        doe == z - era * 146097
        yoe == (doe - doe \div 1460 + doe \div 36524 - doe \div 146096) \div 365
        doy == doe - (365 * yoe + yoe \div 4 - yoe \div 100)
        mp  == (5 * doy + 2) \div 153
        d   == doy - (153 * mp + 2) \div 5 + 1
        m   == IF mp < 10 THEN mp + 3 ELSE mp - 9
        y   == yoe + era * 400 + (IF m <= 2 THEN 1 ELSE 0)
    IN  <<y, m, d>>

Year(t)  == CivilFromDays(t)[1]

Month(t) == CivilFromDays(t)[2]

DayOfYear(t) == t - DaysFromCivil(Year(t), 1, 1) + 1

\* Monday = 0 ... Sunday = 6; 1970-01-01 was a Thursday
DayOfWeek(t) == (t + 3) % 7

\* ISO 8601 weeks in year y: 53 when 1 January is a Thursday, or a Wednesday
\* of a leap year
IsoWeeksInYear(y) ==
    LET jan1 == DayOfWeek(DaysFromCivil(y, 1, 1))
    IN  IF jan1 = 3 \/ (jan1 = 2 /\ IsLeap(y)) THEN 53 ELSE 52

\* isocalendar().week
IsoWeek(t) ==
    LET w == (DayOfYear(t) - (DayOfWeek(t) + 1) + 10) \div 7
    IN  IF w < 1 THEN IsoWeeksInYear(Year(t) - 1)
        ELSE IF w > IsoWeeksInYear(Year(t)) THEN 1
        ELSE w

\* strftime("%Y-%m-%d"): the civil date, as <<year, month, day>>
FormatDate(t) == CivilFromDays(t)

(***************************************************************************)
(* np.sin / np.cos in milli, by Bhaskara's rational approximation          *)
(* sin(pi*u) ~ 16u(1-u) / (5 - 4u(1-u)) on 0 <= u <= 1 (error < 0.002).    *)
(***************************************************************************)
SinHalfTurn(a, b) ==
    (4000 * a * (b - a)) \div ((5 * b * b - 4 * a * (b - a)) \div 4)

\* sin(pi * a / b), a >= 0
SinPi(a, b) ==
    LET m == a % (2 * b)
    IN  IF m <= b THEN SinHalfTurn(m, b) ELSE -SinHalfTurn(m - b, b)

\* sin(2 * pi * num / den)
SinTurns(num, den) == SinPi(2 * num, den)

\* cos(2 * pi * num / den) = sin(2 * pi * num / den + pi / 2)
CosTurns(num, den) == SinPi(4 * num + den, 2 * den)

(***************************************************************************)
(* Python truthiness and `a or b` on a document field.                     *)
(***************************************************************************)
\* None and 0 (0.0) are falsy; every other number, NaN included, is truthy
Falsy(v) == v = None \/ v = 0

PyOr(a, b) == IF Falsy(a) THEN b ELSE a

\* A location argument is a string; NoLocation stands for an argument that
\* is absent (None).  `not location` holds of "" and of None.
NoLocation == "<None>"

\* a validation that only notices an absent location
LocationFalsyAbsentOnly(l) == l = NoLocation

\* `not location`: None and the empty string are falsy
LocationFalsy(l) == l = "" \/ l = NoLocation

(***************************************************************************)
(* Stable sort of rows by timestamp: DataFrame.sort_values("timestamp").   *)
(***************************************************************************)
\* the place of row i after the sort: rows of an earlier time come first,
\* rows of the same time keep their order
SortRank(s, i) ==
    Cardinality({j \in 1..Len(s) :
        \/ s[j].timestamp < s[i].timestamp
        \/ (s[j].timestamp = s[i].timestamp /\ j <= i)})

SortByTime(s) ==
    LET rank == [i \in 1..Len(s) |-> SortRank(s, i)]
    IN  [k \in 1..Len(s) |-> s[CHOOSE i \in 1..Len(s) : rank[i] = k]]

(***************************************************************************)
(* fetch_historical_pm25_from_elastic(location_name, days_back).           *)
(* resp is what es.search does: "error" when the client or the search      *)
(* raises, else the sequence of hits' _source documents                    *)
(*   [timestamp, pm25_ugm3, value, aqi, location_name]                     *)
(* where a field that is None is absent or null; a document whose          *)
(* timestamp is None has no "@timestamp" key.                              *)
(* The result is [raised, contacted, rows]: raised = the ValueError of     *)
(* line 34, contacted = the store was queried, rows = the DataFrame.       *)
(***************************************************************************)
\* what es.search does: it raises, or answers with hits
SearchError == [raises |-> TRUE, hits |-> <<>>]
SearchHits(h) == [raises |-> FALSE, hits |-> h]

\* lines 56-57: the concentration a hit yields, None when it is skipped
HitVal(src) == PyOr(src.pm25_ugm3, src.value)

\* lines 60-66: the row appended for a hit that is not skipped
HitRow(src, location_name) ==
    [timestamp  |-> src.timestamp,
     pm25_value |-> HitVal(src),
     location   |-> IF src.location_name = NoLocation THEN location_name
                    ELSE src.location_name]

\* lines 53-66: one row per hit that is not skipped, in the hits' order
ParseHits(hits, location_name) ==
    LET kept == SelectSeq(hits, LAMBDA src : HitVal(src) # None)
    IN  [k \in 1..Len(kept) |-> HitRow(kept[k], location_name)]

\* src["@timestamp"] raises KeyError for a kept hit without the key
ParseRaises(hits) ==
    \E i \in 1..Len(hits) : HitVal(hits[i]) # None /\ hits[i].timestamp = None

\* line 71: dropna(subset=["pm25_value"]).sort_values("timestamp")
DropNaNValues(rows) ==
    SelectSeq(rows, LAMBDA r : r.pm25_value # NaN)

\* a fetch whose except clause is missing: the store's exception reaches
\* the caller
FetchHistoricalPropagates(location_name, resp) ==
    IF LocationFalsy(location_name)
    THEN [raised |-> TRUE, contacted |-> FALSE, rows |-> <<>>]
    ELSE IF resp.raises \/ ParseRaises(resp.hits)
    THEN [raised |-> TRUE, contacted |-> TRUE, rows |-> <<>>]
    ELSE [raised |-> FALSE, contacted |-> TRUE,
          rows |-> SortByTime(DropNaNValues(ParseHits(resp.hits, location_name)))]

\* lines 31-76: raised = the ValueError of line 34; every exception of the
\* try block is caught and answered with an empty frame
FetchHistorical(location_name, resp) ==
    IF LocationFalsy(location_name)
    THEN [raised |-> TRUE, contacted |-> FALSE, rows |-> <<>>]
    ELSE IF resp.raises \/ ParseRaises(resp.hits)
    THEN [raised |-> FALSE, contacted |-> TRUE, rows |-> <<>>]
    ELSE [raised |-> FALSE, contacted |-> TRUE,
          rows |-> SortByTime(DropNaNValues(ParseHits(resp.hits, location_name)))]

(***************************************************************************)
(* generate_synthetic_historical_data(location, days), called at `clock`.  *)
(***************************************************************************)
SEED == 42

\* The i-th draw (0-based) of rng.normal(0, 8, days) in centi.  NumPy's
\* PCG64 stream is not reproduced digit for digit: what the generator relies
\* on is that a draw is a function of the seed and of its place in the
\* stream, and that is what this keeps.
NormalDraw(seed, i) == (((seed + 1) * (i + 1) * 7919) % 6401) - 3200

\* rng = np.random.default_rng(42): a generator of its own per call, so the
\* stream of every call starts at its first draw
StreamStart(calls) == 0

\* np.linspace(0, stop, days)[i] as a fraction <<num, den>> of stop
LinspaceFrac(i, days) == IF days = 1 THEN <<0, 1>> ELSE <<i, days - 1>>

\* a clip without the lower bound
ClipHighOnly(x, lo, hi) == Min2(x, hi)

Clip(x, lo, hi) == IF x < lo THEN lo ELSE IF x > hi THEN hi ELSE x

SyntheticValue(i, days, calls) ==
    LET f        == LinspaceFrac(i, days)
        base     == 3500
        \* 15 * sin(4*pi*f + pi/2)
        seasonal == (15 * CosTurns(2 * f[1], f[2])) \div 10
        trend    == (500 * f[1]) \div f[2]
        noise    == NormalDraw(SEED, StreamStart(calls) + i)
        weekly   == IF i % 7 < 5 THEN 500 ELSE -300
    IN  Clip(base + seasonal + trend + noise + weekly, 500, 15000)

\* dates = [end - timedelta(days=i) for i in range(days, 0, -1)]
SyntheticDate(i, days, clock) == clock - (days - i)

GenerateSynthetic(location, days, clock, calls) ==
    [k \in 1..days |->
        [timestamp  |-> SyntheticDate(k - 1, days, clock),
         pm25_value |-> SyntheticValue(k - 1, days, calls),
         location   |-> location]]

(***************************************************************************)
(* Series statistics of pandas, on sequences of centi values.              *)
(***************************************************************************)
NonNaN(s) == SelectSeq(s, LAMBDA v : v # NaN)

\* Series.mean(): NaN of no value, else the mean (floored to centi)
Mean(s) ==
    LET v == NonNaN(s)
    IN  IF v = <<>> THEN NaN ELSE SumSeq(v) \div Len(v)

SumSqDev(s, m) == SumSeq([i \in 1..Len(s) |-> (s[i] - m) * (s[i] - m)])

\* Series.std(): the sample standard deviation (ddof = 1), NaN of fewer than
\* two values
Std(s) ==
    LET v == NonNaN(s)
    IN  IF Len(v) < 2 THEN NaN
        ELSE ISqrt(SumSqDev(v, SumSeq(v) \div Len(v)) \div (Len(v) - 1))

Values(df) == [i \in 1..Len(df) |-> df[i].pm25_value]

\* a shift that is one row short
ShiftOneShort(vals, i, k) == IF i - k >= 0 THEN vals[i - k + 1] ELSE NaN

\* Series.shift(k)[i]
Shift(vals, i, k) == IF i - k >= 1 THEN vals[i - k] ELSE NaN

\* the rows i-w+1..i that Series.rolling(w, min_periods=1) aggregates at i
Window(vals, i, w) == SubSeq(vals, Max2(1, i - w + 1), i)

Times(df) == {df[i].timestamp : i \in 1..Len(df)}

\* Series.min() / Series.max() of the timestamp column
MinTime(df) ==
    LET ts == Times(df) IN CHOOSE t \in ts : \A u \in ts : t <= u

MaxTime(df) ==
    LET ts == Times(df) IN CHOOSE t \in ts : \A u \in ts : t >= u

(***************************************************************************)
(* create_time_series_features(df).                                        *)
(***************************************************************************)
\* lines 97-105: the calendar and cyclical columns of an instant
CalendarFields(t) ==
    [year         |-> Year(t),
     month        |-> Month(t),
     day_of_year  |-> DayOfYear(t),
     day_of_week  |-> DayOfWeek(t),
     week_of_year |-> IsoWeek(t),
     month_sin    |-> SinTurns(Month(t), 12),
     month_cos    |-> CosTurns(Month(t), 12),
     day_sin      |-> SinTurns(DayOfYear(t), 365),
     day_cos      |-> CosTurns(DayOfYear(t), 365)]

\* lines 96-112: row i with every derived column, before dropna; vals is
\* the pm25_value column and start the earliest timestamp
FeatureRow(df, vals, start, i) ==
    LET cal  == CalendarFields(df[i].timestamp)
    IN  [timestamp          |-> df[i].timestamp,
         pm25_value         |-> df[i].pm25_value,
         location           |-> df[i].location,
         year               |-> cal.year,
         month              |-> cal.month,
         day_of_year        |-> cal.day_of_year,
         day_of_week        |-> cal.day_of_week,
         week_of_year       |-> cal.week_of_year,
         month_sin          |-> cal.month_sin,
         month_cos          |-> cal.month_cos,
         day_sin            |-> cal.day_sin,
         day_cos            |-> cal.day_cos,
         pm25_lag_1         |-> Shift(vals, i, 1),
         pm25_lag_7         |-> Shift(vals, i, 7),
         pm25_lag_30        |-> Shift(vals, i, 30),
         pm25_rolling_7     |-> Mean(Window(vals, i, 7)),
         pm25_rolling_30    |-> Mean(Window(vals, i, 30)),
         pm25_rolling_std_7 |-> Std(Window(vals, i, 7)),
         days_since_start   |-> df[i].timestamp - start]

\* the feature schema, in training order (lines 119-125)
FeatureCols ==
    <<"year", "month", "day_of_year", "day_of_week", "week_of_year",
      "month_sin", "month_cos", "day_sin", "day_cos",
      "pm25_lag_1", "pm25_lag_7", "pm25_lag_30",
      "pm25_rolling_7", "pm25_rolling_30", "pm25_rolling_std_7",
      "days_since_start">>

NumericCols == <<"pm25_value">> \o FeatureCols

\* a row dropna() keeps: no column of it is NaN / None
RowComplete(r) ==
    /\ r.location # NoLocation
    /\ \A c \in 1..Len(NumericCols) : r[NumericCols[c]] # NaN

\* a dropna that looks at the longest lag only
DropNaLag30Only(rows) ==
    SelectSeq(rows, LAMBDA r : r.pm25_lag_30 # NaN)

\* line 113: df.dropna()
DropNa(rows) == SelectSeq(rows, RowComplete)

AllFeatureRows(df) ==
    IF df = <<>> THEN <<>>
    ELSE LET vals  == Values(df)
             start == MinTime(df)
         IN  [i \in 1..Len(df) |-> FeatureRow(df, vals, start, i)]

CreateTimeSeriesFeatures(df) == DropNa(AllFeatureRows(df))

\* a split that leaves the first 20 % for training
SplitIndexFifth(n) == (n * 2) \div 10

(***************************************************************************)
(* train_pm25_forecasting_model(df).                                       *)
(***************************************************************************)
\* line 128: split = int(len(X) * 0.8)
SplitIndex(n) == (n * 8) \div 10

\* a split that trains on the newest rows
TrainSliceFromEnd(feat) ==
    SubSeq(feat, Len(feat) - SplitIndex(Len(feat)) + 1, Len(feat))

\* line 129-130: X[:split], y[:split]
TrainSlice(feat) == SubSeq(feat, 1, SplitIndex(Len(feat)))

\* line 129-130: X[split:], y[split:]
TestSlice(feat) == SubSeq(feat, SplitIndex(Len(feat)) + 1, Len(feat))

\* line 135: RandomForestRegressor.fit raises ValueError on zero samples
FitRaises(train) == Len(train) = 0

(***************************************************************************)
(* The fitted RandomForestRegressor.  The forest itself is scikit-learn's; *)
(* what the pipeline relies on is that the fitted model is a fixed         *)
(* function of a feature row whose outputs are averages of training        *)
(* targets, so they lie between the least and the greatest of them.  It is *)
(* abstracted to one split on pm25_lag_1 with two leaf values; the fit     *)
(* chooses the leaves.  Predictions are in 0.0001 ug/m3.                   *)
(***************************************************************************)
LeafValues(train) ==
    LET y == Values(train)
    IN  { 100 * (CHOOSE v \in {y[i] : i \in 1..Len(y)} :
                    \A i \in 1..Len(y) : v <= y[i]),
          (100 * SumSeq(y)) \div Len(y),
          100 * (CHOOSE v \in {y[i] : i \in 1..Len(y)} :
                    \A i \in 1..Len(y) : v >= y[i]) }

FittedModels(train) ==
    { [feature_cols |-> FeatureCols,
       threshold    |-> Mean(Values(train)),
       left         |-> l,
       right        |-> r] : l \in LeafValues(train), r \in LeafValues(train) }

\* model.predict(row[feature_cols])[0]
ModelPredict(model, row) ==
    IF row.pm25_lag_1 <= model.threshold THEN model.left ELSE model.right

\* lines 136-141: r2, rmse and mae on the held-out slice.  r2 is the
\* fraction <<ss_tot - ss_res, ss_tot>> (<<0, 0>> = NaN, of fewer than two
\* samples); rmse and mae are in centi.
TestMetrics(model, test) ==
    LET n      == Len(test)
        y      == Values(test)
        err    == [i \in 1..n |->
                      y[i] - RoundHalfEven(ModelPredict(model, test[i]), 100)]
        ss_res == SumSeq([i \in 1..n |-> err[i] * err[i]])
        ss_tot == SumSqDev(y, SumSeq(y) \div n)
    IN  [r2   |-> IF n < 2 THEN <<0, 0>>
                  ELSE IF ss_tot = 0 THEN (IF ss_res = 0 THEN <<1, 1>> ELSE <<0, 1>>)
                  ELSE <<ss_tot - ss_res, ss_tot>>,
         rmse |-> ISqrt(ss_res \div n),
         mae  |-> SumSeq([i \in 1..n |-> Abs(err[i])]) \div n]

(***************************************************************************)
(* predict_pm25_in_5_years(model, feature_cols, historical_df, location).  *)
(***************************************************************************)
RecentRows == 90

HorizonDays == 5 * 365

\* a recent window that is the whole history
RecentWholeHistory(hist) == hist

\* line 147: historical_df.tail(90)
Recent(hist) == TailK(hist, RecentRows)

\* line 151: last_date + timedelta(days=5 * 365)
FutureDate(last_date) == last_date + HorizonDays

\* a future row whose lags are the observations 7 and 30 rows back
FutureRowPositionalLags(hist, location) ==
    LET recent == Values(Recent(hist))
        future == FutureDate(MaxTime(Recent(hist)))
    IN  CalendarFields(future) @@
        [timestamp          |-> future,
         pm25_value         |-> Mean(recent),
         location           |-> location,
         pm25_lag_1         |-> recent[Len(recent)],
         pm25_lag_7         |-> recent[Max2(1, Len(recent) - 6)],
         pm25_lag_30        |-> recent[Max2(1, Len(recent) - 29)],
         pm25_rolling_7     |-> Mean(TailK(recent, 7)),
         pm25_rolling_30    |-> Mean(TailK(recent, 30)),
         pm25_rolling_std_7 |-> Std(TailK(recent, 7)),
         days_since_start   |-> future - MinTime(hist)]

\* lines 153-174: the single feature row of the future date
FutureRow(hist, location) ==
    LET recent == Values(Recent(hist))
        future == FutureDate(MaxTime(Recent(hist)))
    IN  CalendarFields(future) @@
        [timestamp          |-> future,
         pm25_value         |-> Mean(recent),
         location           |-> location,
         pm25_lag_1         |-> recent[Len(recent)],
         pm25_lag_7         |-> Mean(TailK(recent, 7)),
         pm25_lag_30        |-> Mean(TailK(recent, 30)),
         pm25_rolling_7     |-> Mean(TailK(recent, 7)),
         pm25_rolling_30    |-> Mean(TailK(recent, 30)),
         pm25_rolling_std_7 |-> Std(TailK(recent, 7)),
         days_since_start   |-> future - MinTime(hist)]

\* the slope of the line through the first and the last point
TrendSlopeEndpoints(y) == <<y[Len(y)] - y[1], Len(y) - 1>>

\* line 179: the least-squares slope of value against row index, as the
\* fraction <<num, den>> = 2 * sum(c_i * y_i) / sum(c_i^2), c_i = 2i - (n-1)
TrendSlope(y) ==
    LET n == Len(y)
        c == [i \in 1..n |-> 2 * (i - 1) - (n - 1)]
    IN  <<2 * SumSeq([i \in 1..n |-> c[i] * y[i]]),
          SumSeq([i \in 1..n |-> c[i] * c[i]])>>

\* round(k * num / den) for a slope <<num, den>>, den > 0, without overflow
ScaledRound(k, f) ==
    LET q == f[1] \div f[2]
        r == f[1] % f[2]
    IN  k * q + RoundHalfEven(k * r, f[2])

\* line 176: row[feature_cols], the values in the order of feature_cols
Passed(row, feature_cols) ==
    [i \in 1..Len(feature_cols) |-> row[feature_cols[i]]]

\* lines 191-192, in 0.0001 ug/m3 before rounding
ConfidenceLow(pred, curr_std) == pred - 196 * curr_std

ConfidenceHigh(pred, curr_std) == pred + 196 * curr_std

\* The locals and the returned dict.  Concentrations of the result are in
\* centi (round(x, 2)); pred is the unrounded prediction in 0.0001.
PredictPm25In5Years(model, hist, location) ==
    LET recent    == Values(Recent(hist))
        curr_std  == Std(recent)
        last_date == MaxTime(Recent(hist))
        future    == FutureDate(last_date)
        row       == FutureRow(hist, location)
        pred      == ModelPredict(model, row)
        slope     == TrendSlope(recent)
    IN  [row      |-> row,
         x        |-> Passed(row, model.feature_cols),
         pred     |-> pred,
         curr_std |-> curr_std,
         slope    |-> slope,
         result   |->
           [current_avg_pm25         |-> RoundHalfEven(SumSeq(recent), Len(recent)),
            predicted_pm25_5y        |-> RoundHalfEven(pred, 100),
            prediction_date          |-> FormatDate(future),
            current_date             |-> FormatDate(last_date),
            annual_trend             |-> IF slope[2] = 0 THEN NaN
                                         ELSE ScaledRound(365, slope),
            five_year_trend          |-> IF slope[2] = 0 THEN NaN
                                         ELSE ScaledRound(365 * 5, slope),
            location                 |-> location,
            confidence_interval_low  |-> IF curr_std = NaN THEN NaN
                ELSE RoundHalfEven(ConfidenceLow(pred, curr_std), 100),
            confidence_interval_high |-> IF curr_std = NaN THEN NaN
                ELSE RoundHalfEven(ConfidenceHigh(pred, curr_std), 100)]]

(***************************************************************************)
(* calculate_fev1_from_predicted_pm25(predicted_pm25).  The argument is in *)
(* centi; volumes are in 0.001 ml.                                         *)
(***************************************************************************)
BASELINE_FEV1 == 4000 * 1000

NATURAL_DECLINE_RATE == 30 * 1000

\* (c / 35) ** 1.3 in milli at c = 35, 36, ..., 200 ug/m3
PowerTable ==
   <<1000, 1037, 1075, 1113, 1151, 1190, 1228, 1267, 1307, 1346, 1386, 1427,
     1467, 1508, 1549, 1590, 1631, 1673, 1715, 1757, 1800, 1842, 1885, 1928,
     1972, 2015, 2059, 2103, 2147, 2192, 2236, 2281, 2326, 2371, 2417, 2462,
     2508, 2554, 2600, 2647, 2693, 2740, 2787, 2834, 2882, 2929, 2977, 3025,
     3073, 3121, 3169, 3218, 3267, 3315, 3364, 3414, 3463, 3513, 3562, 3612,
     3662, 3712, 3763, 3813, 3864, 3915, 3966, 4017, 4068, 4120, 4171, 4223,
     4275, 4327, 4379, 4431, 4484, 4536, 4589, 4642, 4695, 4748, 4801, 4855,
     4908, 4962, 5016, 5070, 5124, 5178, 5232, 5287, 5341, 5396, 5451, 5506,
     5561, 5616, 5672, 5727, 5783, 5839, 5895, 5951, 6007, 6063, 6119, 6176,
     6232, 6289, 6346, 6403, 6460, 6517, 6574, 6632, 6689, 6747, 6805, 6863,
     6921, 6979, 7037, 7095, 7154, 7212, 7271, 7330, 7388, 7447, 7507, 7566,
     7625, 7684, 7744, 7804, 7863, 7923, 7983, 8043, 8103, 8164, 8224, 8284,
     8345, 8406, 8466, 8527, 8588, 8649, 8710, 8772, 8833, 8894, 8956, 9018,
     9079, 9141, 9203, 9265, 9327, 9390, 9452, 9514, 9577, 9639>>

\* a multiplier that drops past the breakpoint
NonLinearDropping(c) == IF c > 3500 THEN 500 ELSE 1000

\* line 201: (predicted_pm25 / 35.0) ** 1.3 if predicted_pm25 > 35 else 1.0,
\* in milli; between whole ug/m3 the table is interpolated
NonLinear(c) ==
    IF c > 3500
    THEN LET k == c \div 100 - 34
             f == c % 100
         IN  PowerTable[k] + ((PowerTable[k + 1] - PowerTable[k]) * f) \div 100
    ELSE 1000

\* a total decline without the multiplier
TotalDeclineLinear(c) == NATURAL_DECLINE_RATE * 5 + 72 * c

\* line 202; pm25_impact_rate = c / 10 * 72 is 72 * c in 0.001 ml
TotalDecline(c) == NATURAL_DECLINE_RATE * 5 + (9 * c * NonLinear(c)) \div 125

\* a tier rule that reads the percentage as reported, rounded to 0.1
RiskLevelOfRounded(projected) ==
    LET pct == RoundHalfEven(projected, BASELINE_FEV1 \div 1000)
    IN  IF pct < 700 THEN "Severe"
        ELSE IF pct < 800 THEN "High"
        ELSE IF pct < 900 THEN "Moderate"
        ELSE IF pct < 950 THEN "Low-Moderate"
        ELSE "Low"

\* a tier rule with a sixth tier for a volume below zero
RiskLevelSixTiers(projected) ==
    IF projected < 0 THEN "Critical"
    ELSE IF projected * 100 < 70 * BASELINE_FEV1 THEN "Severe"
    ELSE IF projected * 100 < 80 * BASELINE_FEV1 THEN "High"
    ELSE IF projected * 100 < 90 * BASELINE_FEV1 THEN "Moderate"
    ELSE IF projected * 100 < 95 * BASELINE_FEV1 THEN "Low-Moderate"
    ELSE "Low"

\* a tier rule whose thresholds are inclusive
RiskLevelInclusive(projected) ==
    IF projected * 100 <= 70 * BASELINE_FEV1 THEN "Severe"
    ELSE IF projected * 100 <= 80 * BASELINE_FEV1 THEN "High"
    ELSE IF projected * 100 <= 90 * BASELINE_FEV1 THEN "Moderate"
    ELSE IF projected * 100 <= 95 * BASELINE_FEV1 THEN "Low-Moderate"
    ELSE "Low"

\* lines 205-209, on pct_capacity = projected / BASELINE_FEV1 * 100
RiskLevel(projected) ==
    IF projected * 100 < 70 * BASELINE_FEV1 THEN "Severe"
    ELSE IF projected * 100 < 80 * BASELINE_FEV1 THEN "High"
    ELSE IF projected * 100 < 90 * BASELINE_FEV1 THEN "Moderate"
    ELSE IF projected * 100 < 95 * BASELINE_FEV1 THEN "Low-Moderate"
    ELSE "Low"

\* lines 203-219: the returned dict of a total decline (in 0.001 ml):
\* volumes in 0.1 ml, percentages in 0.1 %
Fev1From(total_decline) ==
    LET projected == BASELINE_FEV1 - total_decline
    IN  [current_fev1               |-> RoundHalfEven(BASELINE_FEV1, 100),
         projected_fev1             |-> RoundHalfEven(projected, 100),
         current_capacity_percent   |-> 1000,
         projected_capacity_percent |-> RoundHalfEven(projected, BASELINE_FEV1 \div 1000),
         capacity_loss_percent      |-> RoundHalfEven(BASELINE_FEV1 - projected,
                                                      BASELINE_FEV1 \div 1000),
         total_decline_ml           |-> RoundHalfEven(total_decline, 100),
         annual_decline_ml          |-> RoundHalfEven(total_decline, 500),
         risk_level                 |-> RiskLevel(projected)]

\* calculate_fev1_from_predicted_pm25(predicted_pm25), predicted_pm25 in centi
CalculateFev1(c) == Fev1From(TotalDecline(c))

(***************************************************************************)
(* Inputs.  The store's answers and the series handed to the feature       *)
(* builder are drawn from families that cover the lengths around the       *)
(* 30-row lag and the 90-row window, every kind of hit, both orders, and   *)
(* missing values.                                                         *)
(***************************************************************************)
LongLen  == 92           \* a series longer than the 90-row recent window
StartDay == 20760        \* the clock at the start: 2026-11-03

\* the lengths around nothing, around the 30-row lag, and past the window
Lengths == (0..2) \cup ((MaxLen - 3)..MaxLen) \cup {LongLen}

Locations == {"", NoLocation, "Chicago, IL"}

\* a reading of the i-th hit, in centi: flat, or a saw over 8.00 .. 30.99
LiveValue(shape, i) ==
    IF shape = "flat" THEN 1200 ELSE 800 + ((i * 731) % 2300)

\* what ingest writes (src/backend/app.py:135-144): the concentration under
\* "value", the index under "aqi", no "pm25_ugm3"
PlainHit(t, v, loc) ==
    [timestamp |-> t, pm25_ugm3 |-> None, value |-> v, aqi |-> 57,
     location_name |-> loc]

HitKinds ==
    {"plain", "ugm3", "aqi_only", "zero_value", "zero_ugm3", "zero_ugm3_value",
     "nan_value", "no_timestamp"}

KindHit(kind, h) ==
    CASE kind = "plain"           -> h
      [] kind = "ugm3"            -> [h EXCEPT !.pm25_ugm3 = h.value, !.value = None]
      [] kind = "aqi_only"        -> [h EXCEPT !.value = None]
      [] kind = "zero_value"      -> [h EXCEPT !.value = 0, !.aqi = 0]
      [] kind = "zero_ugm3"       -> [h EXCEPT !.pm25_ugm3 = 0, !.value = None, !.aqi = 0]
      [] kind = "zero_ugm3_value" -> [h EXCEPT !.pm25_ugm3 = 0, !.value = 700]
      [] kind = "nan_value"       -> [h EXCEPT !.value = NaN]
      [] kind = "no_timestamp"    -> [h EXCEPT !.timestamp = None]

\* n hits inside [clock - days_back, clock]: one a day up to the clock, and
\* the oldest day holding every earlier one
HitTime(i, n, days_back, clock) == Max2(clock - days_back, clock - (n - i))

Reversed(s) == [i \in 1..Len(s) |-> s[Len(s) + 1 - i]]

\* the hit in the middle is of kind v.kind; order "desc" is newest first
Hits(loc, n, days_back, clock, v) ==
    LET asc == [i \in 1..n |->
                  LET h == PlainHit(HitTime(i, n, days_back, clock),
                                    LiveValue(v.shape, i), loc)
                  IN  IF i = (n + 1) \div 2 THEN KindHit(v.kind, h) ELSE h]
    IN  IF v.order = "asc" THEN asc ELSE Reversed(asc)

Variants ==
    {[kind |-> k, order |-> "asc", shape |-> "saw"] : k \in HitKinds}
    \cup {[kind |-> "plain", order |-> "desc", shape |-> "saw"],
          [kind |-> "plain", order |-> "asc", shape |-> "flat"]}

\* every kind of hit in the short answers, both orders in the long ones
VariantsOf(n) == IF n <= 2 THEN Variants ELSE {v \in Variants : v.kind = "plain"}

Responses(loc, days_back, clock) ==
    {SearchError} \cup
    UNION {{SearchHits(Hits(loc, n, days_back, clock, v)) : v \in VariantsOf(n)} :
           n \in Lengths}

\* a series handed to the feature builder by a caller: n daily or two-daily
\* rows up to the clock, ascending, the value at row nan_at missing
\* (nan_at = 0: none)
NanPlaces(n) == {k \in {0, 1, 2, 31, n} : k <= n}

InputSeries(n, step, nan_at, clock) ==
    [i \in 1..n |->
        [timestamp  |-> clock - step * (n - i),
         pm25_value |-> IF i = nan_at THEN NaN ELSE LiveValue("saw", i),
         location   |-> "Chicago, IL"]]

(***************************************************************************)
(* State.                                                                  *)
(***************************************************************************)
VARIABLES
    clock,      \* datetime.now(), a day number
    entry,      \* the function a caller is in: "none", "pipeline", "fetch",
                \* "features", "train", "synthetic"
    pc,         \* where predict_lung_health_5_years is: "idle", "fetch",
                \* "fallback", "synthetic", "train", "predict", "fev1",
                \* "return"; or "returned" / "raised" when the call is over
    args,       \* the arguments of the call
    resp,       \* <<what es.search answered>>, <<>> before the search
    fetched,    \* <<result of fetch_historical_pm25_from_elastic>>
    hist,       \* the historical DataFrame
    source,     \* where hist is from: "none", "live", "synthetic", "caller"
    feat,       \* <<df_feat>> once the feature builder has run
    slices,     \* <<[train, test]>>: the rows the fit and the metrics saw
    model,      \* <<the fitted model>>
    metrics,    \* <<metrics>>
    pm25,       \* <<locals and result of predict_pm25_in_5_years>>
    fev1,       \* <<result of calculate_fev1_from_predicted_pm25>>
    result,     \* <<the dict returned to the caller>>
    error,      \* the exception raised to the caller, "" if none
    effects,    \* the work done during the call
    synthLog,   \* the last calls of generate_synthetic_historical_data
    fevLog,     \* the last calls of calculate_fev1_from_predicted_pm25
    predLog,    \* the last calls of predict_pm25_in_5_years
    runs,       \* the locals of the pipeline runs in flight at once
    hour,       \* the time of the alert service, in hours
    alertHistory, \* the rows of the table alert_history
    outbox,     \* the alert emails handed to the mail service
    passes,     \* the locals of the check passes in flight
    sched,      \* the scheduler process
    esIndex,    \* the documents of the index, by id
    indexLog    \* the last calls of index_docs_idempotent

call  == <<entry, pc, args, error, effects>>
data  == <<resp, fetched, hist, source>>
learn == <<feat, slices, model, metrics>>
out   == <<pm25, fev1, result>>
watch == <<hour, alertHistory, outbox, passes, sched>>
store == <<esIndex, indexLog>>
vars  == <<clock, call, data, learn, out, synthLog, fevLog, predLog, runs, watch, store>>

NoArgs == [location |-> "", use_real_data |-> FALSE, days_back |-> 0]

(***************************************************************************)
(* index_docs_idempotent(rows) of src/backend/app.py.  A row is a record   *)
(* of strings; a key the row does not have holds NoLocation.  The index is *)
(* the set of its documents [id, source].                                  *)
(***************************************************************************)
\* an f-string field: str(None) is "None"
Formatted(v) == IF v = NoLocation THEN "None" ELSE v

\* a document id without the timestamp
DocIdWithoutTimestamp(r) ==
    Formatted(r.location_name) \o "|" \o Formatted(r.pollutant)

\* line 159
DocId(r) ==
    Formatted(r.location_name) \o "|" \o Formatted(r.pollutant) \o "|"
        \o Formatted(r.timestamp)

\* line 160: the bulk action of a row, reduced to what the index keeps
IndexAction(r) == [id |-> DocId(r), source |-> r]

\* _op_type "index": the document replaces the one of the same id
PutDoc(index, doc) == {d \in index : d.id # doc.id} \cup {doc}

\* helpers.bulk on the actions of rows, of which the store accepts those at
\* the positions in accepted, in order
RECURSIVE BulkFrom(_, _, _, _)
BulkFrom(index, rows, accepted, i) ==
    IF i > Len(rows) THEN index
    ELSE BulkFrom(IF i \in accepted THEN PutDoc(index, IndexAction(rows[i]))
                  ELSE index,
                  rows, accepted, i + 1)

Bulk(index, rows, accepted) == BulkFrom(index, rows, accepted, 1)

\* lines 154-169: the returned count and the index afterwards.  The bulk
\* call raises when the store rejects an action or cannot be reached.
IndexDocsIdempotent(index, rows, accepted) ==
    IF rows = <<>> THEN [returned |-> 0, raised |-> FALSE, index |-> index]
    ELSE IF accepted # 1..Len(rows)
    THEN [returned |-> 0, raised |-> TRUE,
          index |-> Bulk(index, rows, accepted)]
    ELSE [returned |-> Len(rows), raised |-> FALSE,
          index |-> Bulk(index, rows, accepted)]

(***************************************************************************)
(* The alert service of src/backend/notifications.py.  Time is in hours;   *)
(* sent_at of a row is the hour of its insert.                             *)
(***************************************************************************)
\* line 250: hours=6
AlertHours == 6

\* the joined rows of monitored_locations and users: two locations of
\* active users with different thresholds, and one of a user switched off
MonitoredLocations ==
    <<[location_id |-> 1, user_id |-> 1, email |-> "ann@example.org",
       threshold_aqi |-> 100, active |-> TRUE],
      [location_id |-> 2, user_id |-> 2, email |-> "bob@example.org",
       threshold_aqi |-> 150, active |-> TRUE],
      [location_id |-> 3, user_id |-> 3, email |-> "cyd@example.org",
       threshold_aqi |-> 100, active |-> FALSE]>>

\* lines 100-126: WHERE u.active = 1
GetAllMonitoredLocations == SelectSeq(MonitoredLocations, LAMBDA l : l.active)

\* a cooldown test whose window is half as long
WasAlertedRecentlyHalfWindow(history, user_id, location_id, now, hours) ==
    \E i \in 1..Len(history) :
        /\ history[i].user_id = user_id
        /\ history[i].location_id = location_id
        /\ history[i].sent_at > now - hours \div 2

\* lines 139-150: COUNT(*) ... sent_at > datetime('now', '-6 hours')  > 0
WasAlertedRecently(history, user_id, location_id, now, hours) ==
    \E i \in 1..Len(history) :
        /\ history[i].user_id = user_id
        /\ history[i].location_id = location_id
        /\ history[i].sent_at > now - hours

\* lines 128-137: the inserted row
AlertRow(user_id, location_id, aqi, now) ==
    [user_id |-> user_id, location_id |-> location_id, aqi |-> aqi,
     sent_at |-> now]

\* what check_aqi_for_location may return (lines 153-178): a failure, a
\* body without overall_aqi, and bodies with an AQI, with or without the
\* category and pollutant rows
AqiAnswer(success, overall_aqi, has_details) ==
    [success |-> success, overall_aqi |-> overall_aqi,
     has_details |-> has_details]

AqiAnswers ==
    {AqiAnswer(FALSE, None, FALSE), AqiAnswer(TRUE, None, FALSE),
     AqiAnswer(TRUE, 100, TRUE), AqiAnswer(TRUE, 150, TRUE),
     AqiAnswer(TRUE, 150, FALSE)}

\* line 270
ThresholdExceeded(overall_aqi, threshold_aqi) == overall_aqi >= threshold_aqi

\* send_alert_email, lines 181-232: without SENDGRID_API_KEY it returns True
\* and sends nothing ("dry"); the body is built outside the try, so a
\* missing category or pollutant list raises; sg.send delivers ("sent",
\* True) or its error is caught ("failed", False)
SendAlertEmail(key, answer, delivered) ==
    IF ~key THEN "dry"
    ELSE IF ~answer.has_details THEN "raises"
    ELSE IF delivered THEN "sent" ELSE "failed"

\* the check passes that may be in flight: the scheduler's and a manual one
Passes == {1, 2}

\* the locals of a pass that is not running, with what it has done so far
\* and the number of times its process was started
IdlePass ==
    [pc |-> "idle", started |-> 0, caller |-> "none", key |-> FALSE, todo |-> <<>>,
     answer |-> AqiAnswer(FALSE, None, FALSE), error |-> "",
     skipped |-> {}, looked |-> {}, mailed |-> {}, recorded |-> {},
     processed |-> {}]

\* the scheduler of src/backend/scheduler.py before it is started: its
\* place, its SENDGRID_API_KEY, the next_run of the hourly job, and the
\* calls of job() that returned and those that had caught an exception
SchedulerOff ==
    [pc |-> "off", key |-> FALSE, next_run |-> 0, runs |-> 0, failures |-> 0]

\* a job() without the try: the exception of the check leaves it
JobPropagates(ended) == IF ended = "raised" THEN "crashed" ELSE "returned"

\* job(), scheduler.py lines 6-10, after a check that ended as `ended`:
\* except Exception prints the error and the function returns
Job(ended) == "returned"

\* the pipeline runs that may be in flight at once, and the locals of a
\* run that has not started
Runs == {1, 2}

IdleRun ==
    [pc |-> "idle", location |-> "", use_real_data |-> FALSE, days_back |-> 0,
     now |-> 0, hist |-> <<>>, feat |-> <<>>, model |-> <<>>, metrics |-> <<>>,
     pm25 |-> <<>>, fev1 |-> <<>>, result |-> <<>>, error |-> ""]

Init ==
    /\ clock = StartDay
    /\ entry = "none"
    /\ pc = "idle"
    /\ args = NoArgs
    /\ resp = <<>>
    /\ fetched = <<>>
    /\ hist = <<>>
    /\ source = "none"
    /\ feat = <<>>
    /\ slices = <<>>
    /\ model = <<>>
    /\ metrics = <<>>
    /\ pm25 = <<>>
    /\ fev1 = <<>>
    /\ result = <<>>
    /\ error = ""
    /\ effects = {}
    /\ synthLog = <<>>
    /\ fevLog = <<>>
    /\ predLog = <<>>
    /\ runs = [r \in Runs |-> IdleRun]
    /\ hour = 0
    /\ alertHistory = <<>>
    /\ outbox = {}
    /\ passes = [p \in Passes |-> IdlePass]
    /\ sched = SchedulerOff
    /\ esIndex = {}
    /\ indexLog = <<>>

\* time passes between calls
Tick ==
    /\ pc = "idle"
    /\ clock < StartDay + MaxTicks
    /\ clock' = clock + 1
    /\ UNCHANGED <<call, data, learn, out, synthLog, fevLog, predLog, runs, watch, store>>

(***************************************************************************)
(* predict_lung_health_5_years(location, use_real_data, days_back).        *)
(***************************************************************************)
\* lines 223-226, 231: the call, its validation and the choice of source
PredictLungHealth(location, use_real_data, days_back) ==
    /\ pc = "idle"
    /\ entry' = "pipeline"
    /\ args' = [location |-> location, use_real_data |-> use_real_data,
                days_back |-> days_back]
    /\ effects' = {}
    /\ IF LocationFalsy(location)
       THEN pc' = "raised" /\ error' = "ValueError"
       ELSE pc' = (IF use_real_data THEN "fetch" ELSE "synthetic") /\ error' = ""
    /\ UNCHANGED <<clock, data, learn, out, synthLog, fevLog, predLog, runs, watch, store>>

\* a fetch step after which a series too short to train on also falls back
FetchFallsBackWhenShort(r) ==
    /\ entry = "pipeline" /\ pc = "fetch"
    /\ \E f \in {FetchHistorical(args.location, r)} :
           /\ fetched' = <<f>>
           /\ resp' = IF f.contacted THEN <<r>> ELSE <<>>
           /\ effects' = effects \cup (IF f.contacted THEN {"search"} ELSE {})
           /\ IF f.raised
              THEN /\ pc' = "raised" /\ error' = "ValueError"
                   /\ UNCHANGED <<hist, source>>
              ELSE /\ error' = ""
                   /\ hist' = f.rows
                   /\ source' = "live"
                   /\ pc' = IF Len(f.rows) < 32 THEN "fallback" ELSE "train"
    /\ UNCHANGED <<clock, entry, args, learn, out, synthLog, fevLog, predLog,
                   runs, watch, store>>

\* lines 227-228: the live fetch, and whether it came back empty
Fetch(r) ==
    /\ entry = "pipeline" /\ pc = "fetch"
    /\ \E f \in {FetchHistorical(args.location, r)} :
           /\ fetched' = <<f>>
           /\ resp' = IF f.contacted THEN <<r>> ELSE <<>>
           /\ effects' = effects \cup (IF f.contacted THEN {"search"} ELSE {})
           /\ IF f.raised
              THEN /\ pc' = "raised" /\ error' = "ValueError"
                   /\ UNCHANGED <<hist, source>>
              ELSE /\ error' = ""
                   /\ hist' = f.rows
                   /\ source' = "live"
                   /\ pc' = IF f.rows = <<>> THEN "fallback" ELSE "train"
    /\ UNCHANGED <<clock, entry, args, learn, out, synthLog, fevLog, predLog, runs, watch, store>>

\* the generator runs: the log keeps this call and the one before it
Logged(location, days, rows) ==
    TailK(synthLog, 1) \o
        <<[location |-> location, days |-> days, at |-> clock, rows |-> rows]>>

\* lines 229-230 and 232: the synthetic series, as fallback or by request
Synthetic ==
    /\ entry = "pipeline" /\ pc \in {"fallback", "synthetic"}
    /\ hist' = GenerateSynthetic(args.location, args.days_back, clock,
                                 Len(synthLog))
    /\ source' = "synthetic"
    /\ effects' = effects \cup {"synthetic"}
    /\ pc' = "train"
    /\ UNCHANGED <<clock, entry, args, error, resp, fetched, learn, out,
                   synthLog, fevLog, predLog, runs, watch, store>>

\* a training that fits a constant model when it is given no rows
TrainOnDegenerate(next_pc) ==
    \E f \in {CreateTimeSeriesFeatures(hist)} :
    \E train \in {TrainSlice(f)}, test \in {TestSlice(f)} :
        /\ feat' = <<f>>
        /\ slices' = <<[train |-> train, test |-> test]>>
        /\ effects' = effects \cup {"features", "fit"}
        /\ pc' = next_pc /\ error' = ""
        /\ IF FitRaises(train)
           THEN /\ model' = <<[feature_cols |-> FeatureCols, threshold |-> 0,
                               left |-> 0, right |-> 0]>>
                /\ metrics' = <<[r2 |-> <<0, 0>>, rmse |-> 0, mae |-> 0]>>
           ELSE \E m \in FittedModels(train) :
                /\ model' = <<m>>
                /\ metrics' = <<TestMetrics(m, test)>>

\* train_pm25_forecasting_model(df), lines 117-142, on the frame in hist:
\* the features, the split, the fit (which raises on an empty train slice)
\* and the metrics
TrainOn(next_pc) ==
    \E f \in {CreateTimeSeriesFeatures(hist)} :
    \E train \in {TrainSlice(f)}, test \in {TestSlice(f)} :
        /\ feat' = <<f>>
        /\ slices' = <<[train |-> train, test |-> test]>>
        /\ IF FitRaises(train)
           THEN /\ effects' = effects \cup {"features"}
                /\ pc' = "raised" /\ error' = "ValueError"
                /\ UNCHANGED <<model, metrics>>
           ELSE \E m \in FittedModels(train) :
                /\ effects' = effects \cup {"features", "fit"}
                /\ model' = <<m>>
                /\ metrics' = <<TestMetrics(m, test)>>
                /\ pc' = next_pc /\ error' = ""

\* line 234
Train ==
    /\ entry = "pipeline" /\ pc = "train"
    /\ TrainOn("predict")
    /\ UNCHANGED <<clock, entry, args, data, out, synthLog, fevLog, predLog, runs, watch, store>>

\* line 235
Predict ==
    /\ entry = "pipeline" /\ pc = "predict"
    /\ pm25' = <<PredictPm25In5Years(model[1], hist, args.location)>>
    /\ effects' = effects \cup {"predict"}
    /\ pc' = "fev1"
    /\ UNCHANGED <<clock, entry, args, error, data, learn, fev1, result,
                   synthLog, fevLog, predLog, runs, watch, store>>

\* line 236
Fev1 ==
    /\ entry = "pipeline" /\ pc = "fev1"
    /\ fev1' = <<CalculateFev1(pm25[1].result.predicted_pm25_5y)>>
    /\ effects' = effects \cup {"fev1"}
    /\ pc' = "return"
    /\ UNCHANGED <<clock, entry, args, error, data, learn, pm25, result,
                   synthLog, fevLog, predLog, runs, watch, store>>

\* line 237
ReturnResult ==
    /\ entry = "pipeline" /\ pc = "return"
    /\ result' = <<[location |-> args.location, pm25 |-> pm25[1].result,
                    fev1 |-> fev1[1], metrics |-> metrics[1]]>>
    /\ pc' = "returned"
    /\ UNCHANGED <<clock, entry, args, error, effects, data, learn, pm25, fev1,
                   synthLog, fevLog, predLog, runs, watch, store>>

(***************************************************************************)
(* The functions of the module called on their own.                        *)
(***************************************************************************)
\* fetch_historical_pm25_from_elastic(location_name, days_back)
CallFetch(location, days_back, r) ==
    /\ pc = "idle"
    /\ entry' = "fetch"
    /\ args' = [location |-> location, use_real_data |-> TRUE,
                days_back |-> days_back]
    /\ \E f \in {FetchHistorical(location, r)} :
           /\ fetched' = <<f>>
           /\ resp' = IF f.contacted THEN <<r>> ELSE <<>>
           /\ effects' = IF f.contacted THEN {"search"} ELSE {}
           /\ hist' = f.rows
           /\ source' = IF f.raised THEN "none" ELSE "live"
           /\ pc' = IF f.raised THEN "raised" ELSE "returned"
           /\ error' = IF f.raised THEN "ValueError" ELSE ""
    /\ UNCHANGED <<clock, learn, out, synthLog, fevLog, predLog, runs, watch, store>>

\* generate_synthetic_historical_data(location, days)
CallSynthetic(location, days) ==
    /\ pc = "idle"
    /\ entry' = "synthetic"
    /\ args' = [location |-> location, use_real_data |-> FALSE,
                days_back |-> days]
    /\ \E rows \in {GenerateSynthetic(location, days, clock, Len(synthLog))} :
           /\ hist' = rows
           /\ synthLog' = Logged(location, days, rows)
    /\ source' = "synthetic"
    /\ effects' = {"synthetic"}
    /\ pc' = "returned"
    /\ UNCHANGED <<clock, error, resp, fetched, learn, out, fevLog, predLog, runs, watch, store>>

\* create_time_series_features(df)
CallFeatures(df) ==
    /\ pc = "idle"
    /\ entry' = "features"
    /\ hist' = df
    /\ source' = "caller"
    /\ feat' = <<CreateTimeSeriesFeatures(df)>>
    /\ effects' = {"features"}
    /\ pc' = "returned"
    /\ UNCHANGED <<clock, args, error, resp, fetched, slices, model, metrics,
                   out, synthLog, fevLog, predLog, runs, watch, store>>

\* train_pm25_forecasting_model(df): the caller's frame is in hist
CallTrain(df) ==
    /\ pc = "idle"
    /\ entry' = "train"
    /\ hist' = df
    /\ source' = "caller"
    /\ pc' = "train"
    /\ UNCHANGED <<clock, args, error, effects, resp, fetched, learn, out,
                   synthLog, fevLog, predLog, runs, watch, store>>

TrainAlone ==
    /\ entry = "train" /\ pc = "train"
    /\ TrainOn("returned")
    /\ UNCHANGED <<clock, entry, args, data, out, synthLog, fevLog, predLog, runs, watch, store>>

\* the last two calls of calculate_fev1_from_predicted_pm25: the argument
\* (None when it lies between two grid points), line 202's total decline
\* and the returned dict
FevLogged(predicted_pm25, total_decline, returned) ==
    TailK(Append(fevLog, [predicted_pm25 |-> predicted_pm25,
                          total_decline  |-> total_decline,
                          returned       |-> returned]), 2)

\* calculate_fev1_from_predicted_pm25(predicted_pm25): no statement of the
\* body raises, whatever the sign of the argument
CallFev1(predicted_pm25) ==
    /\ pc = "idle"
    /\ entry' = "fev1"
    /\ \E returned \in {CalculateFev1(predicted_pm25)} :
           /\ fev1' = <<returned>>
           /\ fevLog' = FevLogged(predicted_pm25,
                                  TotalDecline(predicted_pm25), returned)
    /\ effects' = {"fev1"}
    /\ pc' = "returned"
    /\ UNCHANGED <<clock, args, error, data, learn, pm25, result, synthLog,
                   predLog, runs, watch, store>>

\* the same call at a concentration between two grid points, given by the
\* total decline that line 202 computes for it
CallFev1Between(total_decline) ==
    /\ pc = "idle"
    /\ entry' = "fev1"
    /\ \E returned \in {Fev1From(total_decline)} :
           /\ fev1' = <<returned>>
           /\ fevLog' = FevLogged(None, total_decline, returned)
    /\ effects' = {"fev1"}
    /\ pc' = "returned"
    /\ UNCHANGED <<clock, args, error, data, learn, pm25, result, synthLog,
                   predLog, runs, watch, store>>

\* the last two calls of predict_pm25_in_5_years: the arguments, how the
\* call ended and what it computed (nothing when it raised)
PredLogged(m, df, location, outcome, computed) ==
    TailK(Append(predLog, [model    |-> m,
                           hist     |-> df,
                           location |-> location,
                           outcome  |-> outcome,
                           computed |-> computed]), 2)

\* How a call on df can end.  Of no row, last_date is NaT and the week
\* number cannot be cast to int (line 163), or iloc[-1] fails (line 168).  Of
\* one row, the standard deviations are NaN: model.predict raises on the NaN
\* feature or accepts it, and np.polyfit of one point raises or gives NaN,
\* as the installed libraries decide.
PredictOutcomes(df) ==
    IF Len(df) = 0 THEN {"ValueError", "TypeError", "IndexError"}
    ELSE IF Len(df) = 1 THEN {"ValueError", "LinAlgError", "returned"}
    ELSE {"returned"}

\* predict_pm25_in_5_years(model, feature_cols, historical_df, location)
CallPredict(m, df, location, outcome) ==
    /\ pc = "idle"
    /\ outcome \in PredictOutcomes(df)
    /\ entry' = "predict"
    /\ args' = [location |-> location, use_real_data |-> FALSE, days_back |-> 0]
    /\ hist' = df
    /\ source' = "caller"
    /\ model' = <<m>>
    /\ \E computed \in {IF outcome = "returned"
                        THEN <<PredictPm25In5Years(m, df, location)>>
                        ELSE <<>>} :
           /\ pm25' = computed
           /\ predLog' = PredLogged(m, df, location, outcome, computed)
    /\ error' = IF outcome = "returned" THEN "" ELSE outcome
    /\ effects' = {"predict"}
    /\ pc' = IF outcome = "returned" THEN "returned" ELSE "raised"
    /\ UNCHANGED <<clock, resp, fetched, feat, slices, metrics, fev1, result,
                   synthLog, fevLog, runs, watch, store>>

\* the rest of the state, which a run in flight does not touch
others == <<clock, call, data, learn, out, synthLog, fevLog, predLog, watch,
            store>>

\* lines 223-232 in run r: the check of the location and the history, live
\* when the store answers with rows and synthetic otherwise
RunStart(r, location, use_real_data, days_back, answer) ==
    /\ pc = "idle" /\ runs[r].pc = "idle"
    /\ \E h \in {IF LocationFalsy(location) THEN <<>>
                 ELSE IF use_real_data
                         /\ FetchHistorical(location, answer).rows # <<>>
                 THEN FetchHistorical(location, answer).rows
                 ELSE GenerateSynthetic(location, days_back, clock, 0)} :
         runs' = [runs EXCEPT ![r] =
                    [IdleRun EXCEPT
                       !.location = location,
                       !.use_real_data = use_real_data,
                       !.days_back = days_back,
                       !.now = clock,
                       !.hist = h,
                       !.pc = IF LocationFalsy(location) THEN "raised"
                              ELSE "train",
                       !.error = IF LocationFalsy(location) THEN "ValueError"
                                 ELSE ""]]
    /\ UNCHANGED others

\* line 234 in run r: the features, the split, the fit and the metrics, all
\* locals of the call
RunTrain(r) ==
    /\ runs[r].pc = "train"
    /\ \E f \in {CreateTimeSeriesFeatures(runs[r].hist)} :
       \E train \in {TrainSlice(f)}, test \in {TestSlice(f)} :
         IF FitRaises(train)
         THEN runs' = [runs EXCEPT ![r].feat = <<f>>, ![r].pc = "raised",
                                   ![r].error = "ValueError"]
         ELSE \E m \in FittedModels(train) :
                runs' = [runs EXCEPT ![r].feat = <<f>>, ![r].model = <<m>>,
                                     ![r].metrics = <<TestMetrics(m, test)>>,
                                     ![r].pc = "predict"]
    /\ UNCHANGED others

\* a model kept in one place for all runs: the one trained last
SharedModel(rs, r) ==
    IF rs[3 - r].model # <<>> THEN rs[3 - r].model[1] ELSE rs[r].model[1]

\* line 235: the model handed to the forecast is the local of the same call
LocalModel(rs, r) == rs[r].model[1]

\* line 235 in run r
RunPredict(r) ==
    /\ runs[r].pc = "predict"
    /\ \E p \in {PredictPm25In5Years(LocalModel(runs, r), runs[r].hist,
                                     runs[r].location)} :
         runs' = [runs EXCEPT ![r].pm25 = <<p>>, ![r].pc = "fev1"]
    /\ UNCHANGED others

\* lines 236-237 in run r
RunReturn(r) ==
    /\ runs[r].pc = "fev1"
    /\ \E f \in {CalculateFev1(runs[r].pm25[1].result.predicted_pm25_5y)} :
         runs' = [runs EXCEPT
                    ![r].fev1 = <<f>>,
                    ![r].result = <<[location |-> runs[r].location,
                                     pm25     |-> runs[r].pm25[1].result,
                                     fev1     |-> f,
                                     metrics  |-> runs[r].metrics[1]]>>,
                    ![r].pc = "returned"]
    /\ UNCHANGED others

\* the caller of run r has its result or its error
RunDone(r) ==
    /\ runs[r].pc \in {"returned", "raised"}
    /\ runs' = [runs EXCEPT ![r] = IdleRun]
    /\ UNCHANGED others

\* the last two calls of index_docs_idempotent: the rows, what the store
\* accepted, the returned count and the index afterwards
IndexLogged(rows, accepted, r) ==
    TailK(Append(indexLog, [rows     |-> rows,
                            accepted |-> accepted,
                            returned |-> r.returned,
                            raised   |-> r.raised,
                            index    |-> r.index]), 2)

\* index_docs_idempotent(rows)
CallIndexDocs(rows, accepted) ==
    /\ accepted \subseteq 1..Len(rows)
    /\ \E r \in {IndexDocsIdempotent(esIndex, rows, accepted)} :
           /\ esIndex' = r.index
           /\ indexLog' = IndexLogged(rows, accepted, r)
    /\ UNCHANGED <<clock, call, data, learn, out, synthLog, fevLog, predLog,
                   runs, watch>>

\* what a pass leaves alone
beside == <<clock, call, data, learn, out, synthLog, fevLog, predLog, runs,
            store>>

\* time passes, up to the hour `last`
Hour(last) ==
    /\ hour < last
    /\ hour' = hour + 1
    /\ UNCHANGED <<alertHistory, outbox, passes, sched, beside>>

\* lines 235-244 in pass p: the locations are read once, at the start
PassStartOf(p, caller, key) ==
    /\ passes[p].pc = "idle"
    /\ passes[p].started < MaxPasses
    /\ passes' = [passes EXCEPT ![p] =
                    [IdlePass EXCEPT !.pc = "check", !.caller = caller,
                                     !.started = passes[p].started + 1,
                                     !.key = key,
                                     !.todo = GetAllMonitoredLocations]]

PassStart(p, key) ==
    /\ PassStartOf(p, "cli", key)
    /\ UNCHANGED <<hour, alertHistory, outbox, sched, beside>>

\* the location in hand is done with: the loop goes to the next one
Continue(run) ==
    [run EXCEPT !.todo = Tail(run.todo),
                !.processed = run.processed \cup {Head(run.todo).location_id},
                !.pc = "check"]

\* lines 246-252 in pass p: the cooldown test of the next location
CheckRecent(p) ==
    /\ passes[p].pc = "check" /\ passes[p].todo # <<>>
    /\ LET run == passes[p]
           loc == Head(run.todo)
       IN  passes' = [passes EXCEPT ![p] =
             IF WasAlertedRecently(alertHistory, loc.user_id, loc.location_id,
                                   hour, AlertHours)
             THEN Continue([run EXCEPT
                              !.skipped = run.skipped \cup {loc.location_id}])
             ELSE [run EXCEPT !.pc = "lookup"]]
    /\ UNCHANGED <<hour, alertHistory, outbox, sched, beside>>

\* lines 255-270 and 285-286 in pass p: the AQI lookup and the tests on it
Lookup(p, answer) ==
    /\ passes[p].pc = "lookup"
    /\ LET run == [passes[p] EXCEPT
                     !.answer = answer,
                     !.looked = @ \cup {Head(passes[p].todo).location_id}]
           loc == Head(run.todo)
       IN  passes' = [passes EXCEPT ![p] =
             IF ~answer.success \/ answer.overall_aqi = None
             THEN Continue(run)
             ELSE IF ThresholdExceeded(answer.overall_aqi, loc.threshold_aqi)
             THEN [run EXCEPT !.pc = "send"]
             ELSE Continue(run)]
    /\ UNCHANGED <<hour, alertHistory, outbox, sched, beside>>

\* lines 273-281 in pass p: the email; an error of its construction leaves
\* the loop and the function
Send(p, delivered) ==
    /\ passes[p].pc = "send"
    /\ LET run == passes[p]
           loc == Head(run.todo)
           how == SendAlertEmail(run.key, run.answer, delivered)
       IN  /\ outbox' = IF how = "sent"
                        THEN outbox \cup {[email |-> loc.email,
                                           location_id |-> loc.location_id,
                                           aqi |-> run.answer.overall_aqi,
                                           at |-> hour, pass |-> p]}
                        ELSE outbox
           /\ passes' = [passes EXCEPT ![p] =
                CASE how = "raises" -> [run EXCEPT !.pc = "raised",
                                                   !.error = "AttributeError"]
                  [] how = "failed" -> Continue(run)
                  [] OTHER -> [run EXCEPT
                                 !.pc = "record",
                                 !.mailed = IF how = "sent"
                                            THEN @ \cup {loc.location_id}
                                            ELSE @]]
    /\ UNCHANGED <<hour, alertHistory, sched, beside>>

\* lines 282-284 in pass p: the insert; an error of the database leaves the
\* loop and the function
Record(p, stored) ==
    /\ passes[p].pc = "record"
    /\ LET run == passes[p]
           loc == Head(run.todo)
       IN  IF stored
           THEN /\ alertHistory' =
                     Append(alertHistory,
                            AlertRow(loc.user_id, loc.location_id,
                                     run.answer.overall_aqi, hour))
                /\ passes' = [passes EXCEPT ![p] =
                     Continue([run EXCEPT
                                 !.recorded = @ \cup {loc.location_id}])]
           ELSE /\ passes' = [passes EXCEPT ![p].pc = "raised",
                                            ![p].error = "OperationalError"]
                /\ UNCHANGED alertHistory
    /\ UNCHANGED <<hour, outbox, sched, beside>>

\* lines 290-292 in pass p: the loop is over
PassEnd(p) ==
    /\ passes[p].pc = "check" /\ passes[p].todo = <<>>
    /\ passes' = [passes EXCEPT ![p].pc = "done"]
    /\ UNCHANGED <<hour, alertHistory, outbox, sched, beside>>

\* `notifications.py check` has ended, with or without a traceback
PassOver(p) ==
    /\ passes[p].pc \in {"done", "raised"} /\ passes[p].caller = "cli"
    /\ passes' = [passes EXCEPT ![p] =
                    [IdlePass EXCEPT !.started = passes[p].started]]
    /\ UNCHANGED <<hour, alertHistory, outbox, sched, beside>>

\* the steps of pass p once it has started
PassStep(p) ==
    \/ CheckRecent(p)
    \/ \E a \in AqiAnswers : Lookup(p, a)
    \/ \E delivered \in BOOLEAN : Send(p, delivered)
    \/ \E stored \in BOOLEAN : Record(p, stored)
    \/ PassEnd(p)

\* scheduler.py lines 14-25: init_db, the hourly job is registered, and
\* job() is called once, at once; an error of init_db ends the process
SchedulerStart(key, ready) ==
    /\ sched.pc = "off"
    /\ IF ready
       THEN /\ PassStartOf(1, "job", key)
            /\ sched' = [sched EXCEPT !.pc = "startup", !.key = key,
                                      !.next_run = hour + 1]
       ELSE /\ sched' = [sched EXCEPT !.pc = "failed_init", !.key = key]
            /\ UNCHANGED passes
    /\ UNCHANGED <<hour, alertHistory, outbox, beside>>

\* the check called by job() is over, and job() with it; a job run by
\* run_pending is scheduled again, one hour after its end
JobReturn ==
    /\ sched.pc \in {"startup", "job"}
    /\ passes[1].pc \in {"done", "raised"} /\ passes[1].caller = "job"
    /\ sched' = IF Job(passes[1].pc) = "crashed"
                THEN [sched EXCEPT !.pc = "crashed"]
                ELSE [sched EXCEPT
                        !.pc = "loop",
                        !.runs = @ + 1,
                        !.failures = IF passes[1].pc = "raised"
                                     THEN @ + 1 ELSE @,
                        !.next_run = IF sched.pc = "job"
                                     THEN hour + 1 ELSE @]
    /\ passes' = [passes EXCEPT ![1] =
                    [IdlePass EXCEPT !.started = passes[1].started]]
    /\ UNCHANGED <<hour, alertHistory, outbox, beside>>

\* scheduler.py lines 28-30: run_pending finds the job due and calls it
RunPending ==
    /\ sched.pc = "loop"
    /\ hour >= sched.next_run
    /\ PassStartOf(1, "job", sched.key)
    /\ sched' = [sched EXCEPT !.pc = "job"]
    /\ UNCHANGED <<hour, alertHistory, outbox, beside>>

\* the caller is done with what the call returned or raised
Done ==
    /\ pc \in {"returned", "raised"}
    /\ entry' = "none"
    /\ pc' = "idle"
    /\ args' = NoArgs
    /\ resp' = <<>>
    /\ fetched' = <<>>
    /\ hist' = <<>>
    /\ source' = "none"
    /\ feat' = <<>>
    /\ slices' = <<>>
    /\ model' = <<>>
    /\ metrics' = <<>>
    /\ pm25' = <<>>
    /\ fev1' = <<>>
    /\ result' = <<>>
    /\ error' = ""
    /\ effects' = {}
    /\ UNCHANGED <<clock, synthLog, fevLog, predLog, runs, watch, store>>

(***************************************************************************)
(* The calls a client makes.                                               *)
(***************************************************************************)
\* live lookbacks: a window too short to train on, the two around the
\* shortest trainable synthetic series, and one past the recent window
DaysBackChoices(use_real_data) ==
    IF use_real_data THEN {2, MaxLen - 2, MaxLen - 1, LongLen} ELSE Lengths

\* what the store may answer to the search of the call in progress
Answers ==
    IF args.days_back \in {2, LongLen}
    THEN Responses(args.location, args.days_back, clock)
    ELSE {SearchError, SearchHits(<<>>)}

Next ==
    \/ Tick
    \/ \E l \in Locations, u \in BOOLEAN :
         \E d \in DaysBackChoices(u) : PredictLungHealth(l, u, d)
    \/ /\ pc = "fetch"
       /\ \E r \in Answers : Fetch(r)
    \/ Synthetic
    \/ Train
    \/ Predict
    \/ Fev1
    \/ ReturnResult
    \/ \E l \in Locations, n \in 0..2, v \in Variants :
         CallFetch(l, 2, SearchHits(Hits(l, n, 2, clock, v)))
    \/ \E l \in Locations : CallFetch(l, 2, SearchError)
    \/ \E n \in Lengths, step \in {1, 2} : \E k \in NanPlaces(n) :
         \/ CallTrain(InputSeries(n, step, k, clock))
         \/ CallFeatures(InputSeries(n, step, k, clock))
         \/ CallFeatures(Reversed(InputSeries(n, step, k, clock)))
    \/ TrainAlone
    \/ Done

Spec == Init /\ [][Next]_vars

(***************************************************************************)
(* The synthetic generator called again and again, as time passes.         *)
(***************************************************************************)
SynthDays == 0..3

NextSynth ==
    \/ Tick
    \/ \E l \in Locations \ {NoLocation}, d \in SynthDays : CallSynthetic(l, d)
    \/ Done

SpecSynth == Init /\ [][NextSynth]_vars

(***************************************************************************)
(* The lung-function calculation called again and again.                   *)
(***************************************************************************)
\* concentrations in centi: negative ones, zero, the grid points around the
\* four tier thresholds and around the 35 ug/m3 breakpoint, and large ones
Fev1Inputs ==
    {-1000, -1, 0, 1, 694, 695, 2000, 3472, 3473, 3499, 3500, 3501, 3600,
     5284, 5285, 6509, 6510, 7000, 10000, 14000, 15000, 19999}

\* total declines in 0.001 ml at and next to the four tier thresholds
\* (5, 10, 20 and 30 % of the baseline)
Fev1Declines ==
    {(p * BASELINE_FEV1) \div 100 + e : p \in {5, 10, 20, 30}, e \in {-1, 0, 1}}

NextFev1 ==
    \/ \E c \in Fev1Inputs : CallFev1(c)
    \/ \E d \in Fev1Declines : CallFev1Between(d)
    \/ Done

SpecFev1 == Init /\ [][NextFev1]_vars

(***************************************************************************)
(* The forecast called again and again on histories a caller supplies.     *)
(***************************************************************************)
\* lengths and shapes: no row, one, two, more than the 7-row lag, more than
\* the 30-row lag, more than the 90-row window
PredictInputs ==
    {<<0, "saw">>, <<1, "saw">>, <<2, "rise">>, <<8, "saw">>, <<8, "fall">>,
     <<31, "saw">>, <<31, "rise">>, <<LongLen, "saw">>, <<LongLen, "bump">>,
     <<LongLen, "fall">>}

\* the value of row i of n: a saw, the saw with one reading raised 40 rows
\* before the end, or a line rising or falling by the same amount each row
SeriesValue(shape, i, n) ==
    CASE shape = "saw"  -> LiveValue("saw", i)
      [] shape = "bump" -> LiveValue("saw", i) + (IF i = n - 40 THEN 900 ELSE 0)
      [] shape = "rise" -> 1000 + 7 * i
      [] shape = "fall" -> 4000 - 3 * i

\* n daily rows up to the clock, ascending
PredictSeries(n, shape, clock_) ==
    [i \in 1..n |->
        [timestamp  |-> clock_ - (n - i),
         pm25_value |-> SeriesValue(shape, i, n),
         location   |-> "Chicago, IL"]]

\* fitted models a caller holds
PredictModels ==
    {[feature_cols |-> FeatureCols, threshold |-> 1500,
      left |-> 90000, right |-> 180000],
     [feature_cols |-> FeatureCols, threshold |-> 2500,
      left |-> 250050, right |-> 60000]}

NextPredict ==
    \/ \E m \in PredictModels, i \in PredictInputs :
         \E df \in {PredictSeries(i[1], i[2], clock)} :
           \E o \in PredictOutcomes(df) : CallPredict(m, df, "Chicago, IL", o)
    \/ Done

SpecPredict == Init /\ [][NextPredict]_vars

(***************************************************************************)
(* Pipeline runs in flight at once, their steps interleaved in any order.  *)
(***************************************************************************)
\* location, use_real_data, days_back: two calls that train, on series of
\* different lengths, one that finds too little to train on, and one
\* without a location
RunInputs ==
    {<<"Chicago, IL", FALSE, MaxLen - 1>>, <<"Boston, MA", TRUE, MaxLen>>,
     <<"Boston, MA", TRUE, 2>>, <<"", FALSE, MaxLen>>}

NextRuns ==
    \/ \E r \in Runs, i \in RunInputs, a \in {SearchError, SearchHits(<<>>)} :
         RunStart(r, i[1], i[2], i[3], a)
    \/ \E r \in Runs : RunTrain(r)
    \/ \E r \in Runs : RunPredict(r)
    \/ \E r \in Runs : RunReturn(r)
    \/ \E r \in Runs : RunDone(r)

SpecRuns == Init /\ [][NextRuns]_vars

(***************************************************************************)
(* The bulk-indexing helper called again and again.                        *)
(***************************************************************************)
\* rows of one reporting area: two readings of the same hour and pollutant,
\* one of the next hour, and one without an area name
IndexRow(location_name, pollutant, timestamp, value) ==
    [location_name |-> location_name, pollutant |-> pollutant,
     timestamp |-> timestamp, value |-> value]

IndexRows ==
    {IndexRow("Chicago", "pm25", "2026-11-03T10:00:00Z", "12.0"),
     IndexRow("Chicago", "pm25", "2026-11-03T10:00:00Z", "12.5"),
     IndexRow("Chicago", "pm25", "2026-11-03T11:00:00Z", "12.0")}

\* the lists of at most two of them
IndexLists ==
    {<<>>} \cup {<<a>> : a \in IndexRows}
           \cup {<<a, b>> : a \in IndexRows, b \in IndexRows}

NextIndex ==
    \E rows \in IndexLists : \E accepted \in SUBSET (1..Len(rows)) :
        CallIndexDocs(rows, accepted)

SpecIndex == Init /\ [][NextIndex]_vars

(***************************************************************************)
(* Check passes one after the other, as time passes.                       *)
(***************************************************************************)
NextAlerts ==
    \/ Hour(LastHour)
    \/ \E key \in BOOLEAN : PassStart(1, key)
    \/ PassStep(1)
    \/ PassOver(1)

SpecAlerts == Init /\ [][NextAlerts]_vars

(***************************************************************************)
(* The scheduler process alone; its loop, its checks and the clock go on.  *)
(***************************************************************************)
NextScheduler ==
    \/ Hour(SchedHours)
    \/ \E key \in BOOLEAN, ready \in BOOLEAN : SchedulerStart(key, ready)
    \/ PassStep(1)
    \/ JobReturn
    \/ RunPending

SpecScheduler ==
    /\ Init /\ [][NextScheduler]_vars
    /\ WF_vars(Hour(SchedHours))
    /\ WF_vars(PassStep(1))
    /\ WF_vars(JobReturn)
    /\ WF_vars(RunPending)

(***************************************************************************)
(* The first check of the scheduler process and manual runs of             *)
(* `notifications.py check` at once, within the same hour.                 *)
(***************************************************************************)
NextService ==
    \/ \E key \in BOOLEAN, ready \in BOOLEAN : SchedulerStart(key, ready)
    \/ PassStep(1)
    \/ JobReturn
    \/ \E key \in BOOLEAN : PassStart(2, key)
    \/ PassStep(2)
    \/ PassOver(2)

SpecService == Init /\ [][NextService]_vars

(***************************************************************************)
(* Properties.                                                             *)
(***************************************************************************)
InvalidLocation(l) == l \in {"", NoLocation}

NothingDone ==
    /\ effects = {} /\ resp = <<>> /\ fetched = <<>> /\ hist = <<>>
    /\ feat = <<>> /\ slices = <<>> /\ model = <<>> /\ result = <<>>

\* C1: predict_lung_health_5_years called with an empty or absent location
\* raises ValueError before any fetch, synthetic generation, feature building
\* or training; fetch_historical_pm25_from_elastic called with an empty or
\* absent location_name raises ValueError before the store is contacted.
C1_InvalidLocationFailsFast ==
    /\ (entry = "pipeline" /\ InvalidLocation(args.location)) =>
          (pc = "raised" /\ error = "ValueError" /\ NothingDone)
    /\ (entry = "fetch" /\ InvalidLocation(args.location)) =>
          /\ pc = "raised" /\ error = "ValueError"
          /\ fetched[1].raised /\ ~fetched[1].contacted
          /\ resp = <<>> /\ "search" \notin effects

C1_Witness ==
    /\ entry = "pipeline" /\ args.location = "" /\ args.use_real_data
    /\ pc = "raised" /\ error = "ValueError"

\* the search of the call in progress raised, or a hit could not be read
FetchFailed ==
    /\ entry \in {"pipeline", "fetch"} /\ resp # <<>>
    /\ (resp[1].raises \/ ParseRaises(resp[1].hits))

\* a real-data run whose live fetch came back with no rows
FellBack ==
    /\ entry = "pipeline" /\ args.use_real_data
    /\ fetched # <<>> /\ ~fetched[1].raised /\ fetched[1].rows = <<>>

CompleteResult ==
    /\ result # <<>>
    /\ DOMAIN result[1] = {"location", "pm25", "fev1", "metrics"}
    /\ result[1].location = args.location
    /\ result[1].pm25 = pm25[1].result
    /\ result[1].fev1 = fev1[1]
    /\ result[1].metrics = metrics[1]

\* C2 as stated: in real-data mode, whenever the live fetch fails with an
\* exception or returns no rows, the fetch yields an empty series, the
\* pipeline switches to the synthetic generator and the run returns a
\* complete result without raising, whatever days_back is.
C2_FallbackAlwaysReturns ==
    /\ FetchFailed => (~fetched[1].raised /\ fetched[1].rows = <<>>)
    /\ FellBack =>
          /\ pc # "raised"
          /\ pc = "fallback" \/ source = "synthetic"
          /\ pc = "returned" => CompleteResult

\* C2 amended: the fetch turns every failure into an empty series and the
\* run then continues on the synthetic series; it returns a complete result
\* without raising exactly when days_back >= 32, and raises the fit's
\* ValueError when days_back is smaller.
C2_FallbackReturnsGivenEnoughDays ==
    /\ FetchFailed => (~fetched[1].raised /\ fetched[1].rows = <<>>)
    /\ FellBack => (pc = "fallback" \/ source = "synthetic")
    /\ (FellBack /\ args.days_back >= 32) =>
          (pc # "raised" /\ (pc = "returned" => CompleteResult))
    /\ (FellBack /\ args.days_back < 32) => pc # "returned"

C2_Witness ==
    /\ FellBack /\ resp[1].raises /\ args.days_back = MaxLen - 1
    /\ source = "synthetic" /\ pc = "returned" /\ CompleteResult

\* C3 as stated: two calls of generate_synthetic_historical_data with the
\* same location and the same days, made at any two moments, return
\* identical output: identical timestamps and identical concentrations.
C3_SameArgumentsSameOutput ==
    \A i, j \in 1..Len(synthLog) :
        (synthLog[i].location = synthLog[j].location
            /\ synthLog[i].days = synthLog[j].days)
        => synthLog[i].rows = synthLog[j].rows

\* two calls with the same arguments on different days, with output
C3_Witness ==
    /\ Len(synthLog) = 2
    /\ synthLog[1].location = synthLog[2].location
    /\ synthLog[1].days = synthLog[2].days /\ synthLog[1].days > 0
    /\ synthLog[1].at # synthLog[2].at

\* C4 as stated: the live fetch skips exactly the hits that carry no
\* concentration (neither pm25_ugm3 nor value); no concentration comes from
\* the AQI field; every hit that carries a concentration, 0 included, gives
\* one observation with that concentration.
Carried(h) == IF h.pm25_ugm3 # None THEN h.pm25_ugm3 ELSE h.value

Observed(hits) ==
    SelectSeq(hits, LAMBDA h : Carried(h) # None /\ Carried(h) # NaN)

\* the search answered and every hit could be read
FetchRead ==
    /\ entry \in {"pipeline", "fetch"} /\ resp # <<>> /\ fetched # <<>>
    /\ ~resp[1].raises
    /\ \A i \in 1..Len(resp[1].hits) : resp[1].hits[i].timestamp # None

Matches(row, h) ==
    row.timestamp = h.timestamp /\ row.pm25_value = Carried(h)

C5_FeatureRowsComplete ==
    /\ feat # <<>> =>
          \A i \in 1..Len(feat[1]) : \A c \in 1..Len(FeatureCols) :
              IsNum(feat[1][i][FeatureCols[c]])
    /\ slices # <<>> =>
          \A i \in 1..Len(slices[1].train) : \A c \in 1..Len(FeatureCols) :
              IsNum(slices[1].train[i][FeatureCols[c]])

HasMissing(df) == \E i \in 1..Len(df) : df[i].pm25_value = NaN

\* rows came out of a series with a missing value after its first 30 rows
C5_Witness ==
    /\ feat # <<>> /\ Len(feat[1]) > 0 /\ Len(FeatureCols) = 16
    /\ \E i \in 31..Len(hist) : hist[i].pm25_value = NaN

\* the input columns of a feature row
Observation(r) ==
    [timestamp |-> r.timestamp, pm25_value |-> r.pm25_value,
     location |-> r.location]

\* C6: for a series of N observations without missing values,
\* create_time_series_features returns the input rows 31..N in their order
\* (N - 30 rows) when N > 30, and no rows when N <= 30.
C6_RowCountLaw ==
    (feat # <<>> /\ ~HasMissing(hist)) =>
        LET n == Len(hist)
        IN  IF n > 30
            THEN /\ Len(feat[1]) = n - 30
                 /\ \A i \in 1..(n - 30) : Observation(feat[1][i]) = hist[30 + i]
            ELSE feat[1] = <<>>

C6_Witness ==
    /\ feat # <<>> /\ ~HasMissing(hist)
    /\ Len(hist) = LongLen /\ Len(feat[1]) = LongLen - 30

C8_NoTrainableDataRaises ==
    /\ (feat # <<>> /\ Len(hist) <= 30) => feat[1] = <<>>
    /\ (entry \in {"pipeline", "train"} /\ feat # <<>> /\ feat[1] = <<>>) =>
          /\ pc = "raised" /\ error = "ValueError"
          /\ model = <<>> /\ metrics = <<>>
          /\ pm25 = <<>> /\ fev1 = <<>> /\ result = <<>>

C8_Witness ==
    /\ entry = "pipeline" /\ source = "live" /\ Len(hist) > 0
    /\ feat = << <<>> >> /\ pc = "raised"

\* C9 as stated: prediction_date is the last observed date plus 5 calendar
\* years (same month and day, year + 5), and current_date is the latest
\* timestamp of the history.
C9_PredictionDateFiveYearsOn ==
    pm25 # <<>> =>
        LET last == CivilFromDays(MaxTime(hist))
        IN  /\ pm25[1].result.current_date = last
            /\ pm25[1].result.prediction_date = <<last[1] + 5, last[2], last[3]>>

\* a forecast was made from a live history that ends on the day of the call
C9_Witness ==
    /\ pm25 # <<>> /\ source = "live"
    /\ pm25[1].result.current_date = CivilFromDays(clock)

\* C10: confidence_interval_low and confidence_interval_high are the
\* prediction minus and plus 1.96 times the standard deviation of the last
\* 90 rows (all rows of a shorter history), each rounded to 2 decimals as
\* predicted_pm25_5y is; so low <= predicted_pm25_5y <= high, and the band
\* is symmetric around the prediction up to that rounding.
C10_ConfidenceBand ==
    pm25 # <<>> =>
        LET pred == pm25[1].pred
            r    == pm25[1].result
            std  == Std(Values(TailK(hist, 90)))
        IN  /\ IsNum(std) /\ pm25[1].curr_std = std
            /\ r.predicted_pm25_5y = RoundHalfEven(pred, 100)
            /\ r.confidence_interval_low = RoundHalfEven(pred - 196 * std, 100)
            /\ r.confidence_interval_high = RoundHalfEven(pred + 196 * std, 100)
            /\ r.confidence_interval_low <= r.predicted_pm25_5y
            /\ r.predicted_pm25_5y <= r.confidence_interval_high
            /\ Abs((r.confidence_interval_high - r.predicted_pm25_5y)
                   - (r.predicted_pm25_5y - r.confidence_interval_low)) <= 2

\* a forecast from a history longer than the window, with a proper band
C10_Witness ==
    /\ pm25 # <<>> /\ Len(hist) > 90 /\ pm25[1].curr_std > 0
    /\ pm25[1].pred % 100 # 0
    /\ pm25[1].result.confidence_interval_low < pm25[1].result.predicted_pm25_5y
    /\ pm25[1].result.predicted_pm25_5y < pm25[1].result.confidence_interval_high

(***************************************************************************)
(* Training on short series.                                               *)
(***************************************************************************)
\* the trainer has run on the history, in the pipeline or on its own
Trained == entry \in {"pipeline", "train"} /\ feat # <<>>

\* C25: training succeeds exactly when the train slice is non-empty.  The
\* split is floor(0.8 n) of the n feature rows: with n >= 2 (32 or more
\* dense observations) both slices are non-empty and a model is returned;
\* with n = 1 (31 dense observations) the train slice is empty and the call
\* ends with an error, not a result.
C25_TrainsIffTrainSliceNonEmpty ==
    Trained
    => LET n     == Len(feat[1])
           train == slices[1].train
           test  == slices[1].test
       IN  /\ Len(train) = (8 * n) \div 10
           /\ Len(train) + Len(test) = n
           /\ (train # <<>>) <=> (model # <<>> /\ pc # "raised")
           /\ (~HasMissing(hist) /\ Len(hist) >= 32)
              => /\ n = Len(hist) - 30 /\ n >= 2
                 /\ train # <<>> /\ test # <<>>
                 /\ model # <<>> /\ metrics # <<>> /\ pc # "raised"
           /\ (~HasMissing(hist) /\ Len(hist) = 31)
              => /\ n = 1 /\ train = <<>>
                 /\ pc = "raised" /\ error = "ValueError"
                 /\ model = <<>> /\ result = <<>>

\* a pipeline run on 31 synthetic days: one feature row, no train row, and
\* the fit's error
C25_Witness ==
    /\ Trained /\ entry = "pipeline" /\ source = "synthetic"
    /\ Len(hist) = 31 /\ Len(feat[1]) = 1
    /\ slices[1].train = <<>> /\ Len(slices[1].test) = 1
    /\ pc = "raised"

\* a real-data run whose live fetch came back with rows, at most 31 of them
ShortLiveSeries ==
    /\ entry = "pipeline" /\ args.use_real_data
    /\ fetched # <<>> /\ fetched[1].rows # <<>>
    /\ Len(fetched[1].rows) <= 31

\* C26: only an empty live result triggers the synthetic fallback.  A
\* real-data run whose live series has 1 to 31 rows keeps that series as its
\* history, never runs the synthetic generator, and ends with the training
\* error instead of a result.
C26_ShortLiveSeriesNoFallback ==
    ShortLiveSeries
    => /\ source = "live" /\ hist = fetched[1].rows
       /\ "synthetic" \notin effects
       /\ pc \in {"train", "raised"}
       /\ pc = "raised" => /\ error = "ValueError" /\ feat # <<>>
                           /\ slices[1].train = <<>>
       /\ model = <<>> /\ pm25 = <<>> /\ fev1 = <<>> /\ result = <<>>

\* a real-data run on 31 live rows has ended with the fit's error
C26_Witness ==
    /\ ShortLiveSeries /\ Len(hist) = 31 /\ pc = "raised"
    /\ Len(feat[1]) = 1 /\ "fit" \notin effects

(***************************************************************************)
(* The forecast.                                                           *)
(***************************************************************************)
\* the numeric fields of the forecast result
ForecastNumbers ==
    {"current_avg_pm25", "predicted_pm25_5y", "annual_trend", "five_year_trend",
     "confidence_interval_low", "confidence_interval_high"}

\* the forecast was called on fewer than two observations
ShortHistoryCall == entry = "predict" /\ Len(hist) < 2

\* C11: on a history of fewer than 2 observations the forecast still returns
\* a result of defined values only: the confidence band is defined and no
\* NaN is in a field of the result or in the feature row handed to the
\* model.
C11_ShortHistoryDefinedValues ==
    ShortHistoryCall
    => /\ pc = "returned" /\ pm25 # <<>>
       /\ \A f \in ForecastNumbers : pm25[1].result[f] # NaN
       /\ \A i \in 1..Len(pm25[1].x) : pm25[1].x[i] # NaN

\* the call on one observation that returns: both bounds of the band and
\* both trends are NaN, and so is the 7-row deviation handed to the model
C11_Witness ==
    /\ ShortHistoryCall /\ Len(hist) = 1 /\ pc = "returned"
    /\ pm25[1].result.confidence_interval_low = NaN
    /\ pm25[1].result.confidence_interval_high = NaN
    /\ pm25[1].result.annual_trend = NaN
    /\ pm25[1].row.pm25_rolling_std_7 = NaN
    /\ pm25[1].x[15] = NaN
    /\ pm25[1].result.predicted_pm25_5y # NaN

\* a logged call that returned, on at least two observations
Returned(e) == e.outcome = "returned" /\ Len(e.hist) >= 2

\* the least-squares slope of the recent window of a logged call against the
\* row index 0, 1, ..: (n Sxy - Sx Sy) / (n Sxx - Sx Sx) as <<num, den>>
WindowSlope(e) ==
    LET y   == Values(TailK(e.hist, 90))
        n   == Len(y)
        sx  == SumSeq([i \in 1..n |-> i - 1])
        sy  == SumSeq(y)
        sxy == SumSeq([i \in 1..n |-> (i - 1) * y[i]])
        sxx == SumSeq([i \in 1..n |-> (i - 1) * (i - 1)])
    IN  <<n * sxy - sx * sy, n * sxx - sx * sx>>

\* 365 * num / den rounded to the nearest integer
Times365(f) ==
    (f[1] \div f[2]) * 365 + RoundHalfEven(365 * (f[1] % f[2]), f[2])

\* every row of the history differs from the one before by d
Linear(e, d) ==
    \A i \in 2..Len(e.hist) :
        e.hist[i].pm25_value - e.hist[i - 1].pm25_value = d

\* C18: the point forecast depends on the model and the feature row only,
\* not on the fitted slope: two calls with the same model and the same row
\* give the same forecast whatever their slopes.  annual_trend is the slope
\* of the recent window against the row index times 365 and five_year_trend
\* is annual_trend times 5.
C18_TrendApartFromForecast ==
    \A i \in 1..Len(predLog) :
        LET e == predLog[i]
            r == e.computed[1].result
        IN  Returned(e)
            => /\ \A j \in 1..Len(predLog) :
                      (Returned(predLog[j]) /\ predLog[j].model = e.model
                       /\ predLog[j].computed[1].x = e.computed[1].x)
                      => /\ predLog[j].computed[1].pred = e.computed[1].pred
                         /\ predLog[j].computed[1].result.predicted_pm25_5y
                              = r.predicted_pm25_5y
               /\ r.annual_trend = Times365(WindowSlope(e))
               /\ Abs(r.five_year_trend - 5 * r.annual_trend) <= 3
               /\ \A d \in {-3, 7} :
                      Linear(e, d) => /\ r.annual_trend = 365 * d
                                      /\ r.five_year_trend = 365 * 5 * d

\* two calls with the same model whose histories give the same feature row
\* and different slopes
C18_Witness ==
    /\ entry = "predict" /\ pc = "returned" /\ Len(predLog) = 2
    /\ Returned(predLog[1]) /\ Returned(predLog[2])
    /\ predLog[1].model = predLog[2].model
    /\ predLog[1].computed[1].x = predLog[2].computed[1].x
    /\ predLog[1].computed[1].result.annual_trend
         # predLog[2].computed[1].result.annual_trend
    /\ predLog[1].computed[1].result.current_avg_pm25
         # predLog[2].computed[1].result.current_avg_pm25

\* the mean of the last k observations of a logged call, or of all of them
\* when there are fewer, floored to 0.01
MeanOfLast(e, k) ==
    LET n     == Len(e.hist)
        first == IF n > k THEN n - k + 1 ELSE 1
    IN  SumSeq([i \in 1..(n - first + 1) |-> e.hist[first + i - 1].pm25_value])
          \div (n - first + 1)

\* C19: the future row freezes recent statistics: lag-1 is the last
\* observation, lag-7 and rolling-7 are the mean of the last 7, lag-30 and
\* rolling-30 the mean of the last 30 (of all when fewer), the calendar
\* fields are those of the future date, the day offset counts from the first
\* timestamp of the series to the future date, and the model receives the
\* fields in the order of the training columns.
C19_FutureRowFreezesStatistics ==
    \A i \in 1..Len(predLog) :
        LET e      == predLog[i]
            n      == Len(e.hist)
            row    == e.computed[1].row
            future == e.hist[n].timestamp + 5 * 365
        IN  e.outcome = "returned"
            => /\ row.pm25_lag_1 = e.hist[n].pm25_value
               /\ row.pm25_lag_7 = MeanOfLast(e, 7)
               /\ row.pm25_rolling_7 = MeanOfLast(e, 7)
               /\ row.pm25_lag_30 = MeanOfLast(e, 30)
               /\ row.pm25_rolling_30 = MeanOfLast(e, 30)
               /\ row.timestamp = future
               /\ <<row.year, row.month>> = SubSeq(CivilFromDays(future), 1, 2)
               /\ row.day_of_year
                    = future - DaysFromCivil(row.year, 1, 1) + 1
               /\ row.day_of_week = (future + 3) % 7
               /\ row.days_since_start = future - e.hist[1].timestamp
               /\ e.computed[1].x
                    = <<row.year, row.month, row.day_of_year, row.day_of_week,
                        row.week_of_year, row.month_sin, row.month_cos,
                        row.day_sin, row.day_cos, row.pm25_lag_1,
                        row.pm25_lag_7, row.pm25_lag_30, row.pm25_rolling_7,
                        row.pm25_rolling_30, row.pm25_rolling_std_7,
                        row.days_since_start>>

\* a call on 8 observations, where the last 7 are not all and the last 30
\* are, after one on more than 90, where the series starts before the window
C19_Witness ==
    /\ entry = "predict" /\ pc = "returned" /\ Len(predLog) = 2
    /\ Len(predLog[1].hist) > 90
    /\ predLog[1].computed[1].row.days_since_start > 5 * 365 + 90
    /\ Len(predLog[2].hist) = 8
    /\ pm25[1].row.pm25_lag_7 # pm25[1].row.pm25_lag_30
    /\ pm25[1].row.pm25_lag_30 = pm25[1].row.pm25_value
    /\ pm25[1].row.pm25_lag_1 # pm25[1].row.pm25_lag_7

(***************************************************************************)
(* The lung-function calculation.                                          *)
(***************************************************************************)
\* the unrounded projected volume of a logged call, in 0.001 ml
Projected(e) == 4000000 - e.total_decline

\* the tier of a capacity percentage given as the fraction num / den
TierOfPercent(num, den) ==
    IF num < 70 * den THEN "Severe"
    ELSE IF 70 * den <= num /\ num < 80 * den THEN "High"
    ELSE IF 80 * den <= num /\ num < 90 * den THEN "Moderate"
    ELSE IF 90 * den <= num /\ num < 95 * den THEN "Low-Moderate"
    ELSE "Low"

\* C12: the risk tier comes from the unrounded capacity percentage with
\* strict less-than thresholds: below 70 Severe, from 70 below 80 High, from
\* 80 below 90 Moderate, from 90 below 95 Low-Moderate, from 95 Low; a
\* percentage of exactly 70, 80, 90 and 95 gives High, Moderate,
\* Low-Moderate and Low.
C12_StrictTierThresholds ==
    \A i \in 1..Len(fevLog) :
        LET e == fevLog[i]
        IN  /\ e.returned.risk_level = TierOfPercent(Projected(e), 40000)
            /\ Projected(e) = 2800000 => e.returned.risk_level = "High"
            /\ Projected(e) = 3200000 => e.returned.risk_level = "Moderate"
            /\ Projected(e) = 3600000 => e.returned.risk_level = "Low-Moderate"
            /\ Projected(e) = 3800000 => e.returned.risk_level = "Low"

\* a call whose percentage is exactly 70 next to one whose percentage is
\* just below 70 and rounds to 70.0
C12_Witness ==
    /\ entry = "fev1" /\ pc = "returned" /\ Len(fevLog) = 2
    /\ Projected(fevLog[1]) = 2800000
    /\ fevLog[1].returned.risk_level = "High"
    /\ Projected(fevLog[2]) = 2799999
    /\ fevLog[2].returned.projected_capacity_percent = 700
    /\ fevLog[2].returned.risk_level = "Severe"

\* a logged call whose concentration is a grid point
OnGrid(e) == e.predicted_pm25 # None

\* how severe a tier is
Severity(risk_level) ==
    CASE risk_level = "Low"          -> 0
      [] risk_level = "Low-Moderate" -> 1
      [] risk_level = "Moderate"     -> 2
      [] risk_level = "High"         -> 3
      [] risk_level = "Severe"       -> 4

\* C13: for two concentrations 0 < a <= b the projected volume and the
\* projected capacity percentage at b are at most those at a, also across
\* the switch at 35, and the tier at b is at least as severe as at a.
C13_MonotoneInConcentration ==
    \A i, j \in 1..Len(fevLog) :
        LET a == fevLog[i]
            b == fevLog[j]
        IN  (OnGrid(a) /\ OnGrid(b) /\ 0 < a.predicted_pm25
             /\ a.predicted_pm25 <= b.predicted_pm25)
            => /\ Projected(b) <= Projected(a)
               /\ b.returned.projected_fev1 <= a.returned.projected_fev1
               /\ b.returned.projected_capacity_percent
                    <= a.returned.projected_capacity_percent
               /\ Severity(b.returned.risk_level)
                    >= Severity(a.returned.risk_level)

\* the concentrations 35.00 and 35.01, on either side of the switch
C13_Witness ==
    /\ entry = "fev1" /\ pc = "returned" /\ Len(fevLog) = 2
    /\ fevLog[1].predicted_pm25 = 3500
    /\ fevLog[2].predicted_pm25 = 3501
    /\ Projected(fevLog[2]) < Projected(fevLog[1])

\* the five tiers
Tiers == {"Severe", "High", "Moderate", "Low-Moderate", "Low"}

\* C14: on a concentration of at least 0 the calculation returns without
\* error and touches nothing else, the same concentration gives the same
\* result, current_capacity_percent is 100.0 and risk_level is one of the
\* five tiers.
C14_TotalPureFunction ==
    /\ (entry = "fev1" /\ fevLog[Len(fevLog)].predicted_pm25 >= 0)
       => /\ pc = "returned" /\ error = ""
          /\ fev1 = <<fevLog[Len(fevLog)].returned>>
          /\ effects = {"fev1"}
          /\ hist = <<>> /\ feat = <<>> /\ model = <<>> /\ result = <<>>
    /\ \A i \in 1..Len(fevLog) :
          fevLog[i].predicted_pm25 >= 0
          => /\ fevLog[i].returned.current_capacity_percent = 1000
             /\ fevLog[i].returned.risk_level \in Tiers
             /\ \A j \in 1..Len(fevLog) :
                    fevLog[j].predicted_pm25 = fevLog[i].predicted_pm25
                    => fevLog[j].returned = fevLog[i].returned

\* two calls at 150.00, where the projected volume is below zero
C14_Witness ==
    /\ entry = "fev1" /\ pc = "returned" /\ Len(fevLog) = 2
    /\ fevLog[1].predicted_pm25 = 15000
    /\ fevLog[2].predicted_pm25 = 15000
    /\ fevLog[2].returned.projected_fev1 < 0
    /\ fevLog[2].returned.risk_level = "Severe"

\* the call in progress was made with a concentration below zero
NegativeCall ==
    /\ entry = "fev1"
    /\ OnGrid(fevLog[Len(fevLog)])
    /\ fevLog[Len(fevLog)].predicted_pm25 < 0

\* C15: a concentration below zero is rejected before a result is
\* produced: the call raises and returns no dict.
C15_NegativeConcentrationRejected ==
    NegativeCall => (pc = "raised" /\ fev1 = <<>>)

\* the call at -10.00 returns 3922.0 ml and the tier Low
C15_Witness ==
    /\ NegativeCall /\ pc = "returned"
    /\ fevLog[Len(fevLog)].predicted_pm25 = -1000
    /\ fev1[1].projected_fev1 = 39220
    /\ fev1[1].risk_level = "Low"

\* (c / 35) ^ 1.3 in thousandths at some concentrations, 0 elsewhere
PowerAt(c) ==
    CASE c = 3600  -> 1037
      [] c = 7000  -> 2462
      [] c = 10000 -> 3915
      [] c = 14000 -> 6063
      [] c = 15000 -> 6632
      [] OTHER     -> 0

\* the multiplier a logged call at c > 0 applied, in thousandths: the part
\* of total_decline above 150 ml divided by c / 10 * 72
Multiplier(e) == ((e.total_decline - 150000) * 125) \div (9 * e.predicted_pm25)

\* C16: for a concentration c >= 0, total_decline = 30 * 5 + (c / 10 * 72) * m
\* with m = 1 up to 35 and m = (c / 35) ^ 1.3 above, projected = 4000 -
\* total_decline and the percentage is projected / 4000 * 100; up to 35 the
\* projected volume is 3850 - 7.2 * c, and the two branches agree at 35.
C16_DeclineFormula ==
    \A i \in 1..Len(fevLog) :
        LET e == fevLog[i]
            c == e.predicted_pm25
            m == Multiplier(e)
        IN  (OnGrid(e) /\ c >= 0)
            => /\ c <= 3500 => /\ e.total_decline = 150000 + 72 * c
                               /\ Projected(e) = 3850000 - 72 * c
               /\ c > 3500 => /\ (m + 1) * 7 >= 2 * c
                              /\ m * 12250 <= c * c
                              /\ PowerAt(c) # 0 => Abs(m - PowerAt(c)) <= 1
               /\ Abs(e.returned.total_decline_ml * 100 - e.total_decline) <= 50
               /\ Abs(e.returned.projected_fev1 * 100 - Projected(e)) <= 50
               /\ Abs(e.returned.projected_capacity_percent * 4000
                        - Projected(e)) <= 2000
               /\ \A j \in 1..Len(fevLog) :
                      (c = 3500 /\ fevLog[j].predicted_pm25 = 3501)
                      => /\ e.total_decline = 402000
                         /\ fevLog[j].total_decline - e.total_decline \in 0..200

\* the concentrations 70.00, above the breakpoint, and then 35.00, on it
C16_Witness ==
    /\ entry = "fev1" /\ pc = "returned" /\ Len(fevLog) = 2
    /\ fevLog[1].predicted_pm25 = 7000
    /\ fevLog[1].returned.total_decline_ml \in 13900..13920
    /\ fevLog[2].predicted_pm25 = 3500
    /\ fevLog[2].returned.projected_fev1 = 35980

\* the tier the reported percentage of a logged call falls into
ReportedTier(e) == TierOfPercent(e.returned.projected_capacity_percent, 10)

\* the reported percentage of a logged call sits on a threshold that the
\* unrounded percentage is below
RoundedUpToThreshold(e) ==
    /\ e.returned.projected_capacity_percent \in {700, 800, 900, 950}
    /\ Projected(e) < e.returned.projected_capacity_percent * 4000

\* C27 as stated: the reported risk_level is the tier of the reported
\* projected_capacity_percent, and capacity_loss_percent plus
\* projected_capacity_percent is 100.
C27_TierOfReportedPercent ==
    \A i \in 1..Len(fevLog) :
        /\ fevLog[i].returned.risk_level = ReportedTier(fevLog[i])
        /\ fevLog[i].returned.capacity_loss_percent
             + fevLog[i].returned.projected_capacity_percent = 1000

\* C27: the reported risk_level is the tier of the reported
\* projected_capacity_percent unless that percentage was rounded up onto a
\* threshold (70.0, 80.0, 90.0 or 95.0), when it is the tier below the
\* threshold, one step more severe; capacity_loss_percent plus
\* projected_capacity_percent is 100.
C27_TierOfReportedUnlessRoundedUp ==
    \A i \in 1..Len(fevLog) :
        LET e == fevLog[i]
        IN  /\ ~RoundedUpToThreshold(e)
               => e.returned.risk_level = ReportedTier(e)
            /\ RoundedUpToThreshold(e)
               => Severity(e.returned.risk_level)
                    = Severity(ReportedTier(e)) + 1
            /\ e.returned.capacity_loss_percent
                 + e.returned.projected_capacity_percent = 1000

\* the call at 6.95: 94.999 % is reported as 95.0 with the tier Low-Moderate
C27_Witness ==
    /\ entry = "fev1" /\ pc = "returned"
    /\ fevLog[Len(fevLog)].predicted_pm25 = 695
    /\ fev1[1].projected_capacity_percent = 950
    /\ fev1[1].capacity_loss_percent = 50
    /\ fev1[1].risk_level = "Low-Moderate"

\* a logged call at a concentration within the synthetic clip range
InClipRange(e) ==
    OnGrid(e) /\ e.predicted_pm25 >= 0 /\ e.predicted_pm25 <= 15000

\* C30: for a concentration from 0 to 150 the result stays physically
\* bounded: projected_fev1 from 0 to 4000, projected_capacity_percent and
\* capacity_loss_percent from 0 to 100.
C30_PhysicallyBounded ==
    \A i \in 1..Len(fevLog) :
        InClipRange(fevLog[i])
        => /\ fevLog[i].returned.projected_fev1 \in 0..40000
           /\ fevLog[i].returned.projected_capacity_percent \in 0..1000
           /\ fevLog[i].returned.capacity_loss_percent \in 0..1000

\* the call at 150.00 returns -3312.3 ml, -82.8 % and a loss of 182.8 %
C30_Witness ==
    /\ entry = "fev1" /\ pc = "returned"
    /\ fevLog[Len(fevLog)].predicted_pm25 = 15000
    /\ fev1[1].projected_fev1 \in -33130..-33120
    /\ fev1[1].projected_capacity_percent = -828
    /\ fev1[1].capacity_loss_percent = 1828

(***************************************************************************)
(* Runs in flight at once.                                                 *)
(***************************************************************************)
\* the history a run gets when the store has no rows for it
OwnHistory(run) ==
    GenerateSynthetic(run.location, run.days_back, run.now, 0)

\* what the pipeline returns when it runs alone on the inputs of run, whose
\* history is h and whose feature table is f: one result for each model the
\* fit may choose
AloneResults(run, h, f) ==
    IF LocationFalsy(run.location) \/ FitRaises(TrainSlice(f)) THEN {}
    ELSE {LET p == PredictPm25In5Years(m, h, run.location).result
          IN  [location |-> run.location,
               pm25     |-> p,
               fev1     |-> CalculateFev1(p.predicted_pm25_5y),
               metrics  |-> TestMetrics(m, TestSlice(f))] :
          m \in FittedModels(TrainSlice(f))}

\* C17: runs in flight at once share no mutable state: whatever the
\* interleaving, each run builds its feature table from its own history,
\* trains its own model on it, and returns what it would return when run
\* alone with the same inputs.
C17_RunsIsolated ==
    \A r \in Runs :
        LET run == runs[r]
            h   == OwnHistory(run)
            f   == CreateTimeSeriesFeatures(h)
        IN  /\ run.feat # <<>> => run.feat = <<f>>
            /\ run.model # <<>>
               => run.model[1] \in FittedModels(TrainSlice(run.feat[1]))
            /\ run.pm25 # <<>>
               => run.pm25[1] = PredictPm25In5Years(run.model[1], h,
                                                    run.location)
            /\ run.result # <<>> => run.result[1] \in AloneResults(run, h, f)
            /\ run.pc = "raised" => AloneResults(run, h, f) = {}

\* one run has returned while the other, started on other inputs before
\* the first trained, holds its own model and has yet to forecast
C17_Witness ==
    /\ runs[1].pc = "returned" /\ runs[2].pc = "predict"
    /\ runs[1].location # runs[2].location
    /\ runs[1].days_back # runs[2].days_back
    /\ runs[1].model # runs[2].model
    /\ runs[1].result[1].pm25.predicted_pm25_5y
         # PredictPm25In5Years(runs[2].model[1], runs[1].hist,
                               runs[1].location).result.predicted_pm25_5y

(***************************************************************************)
(* The synthetic generator.                                                *)
(***************************************************************************)
\* a synthetic series of at least one day is the history of the call
SyntheticMade == source = "synthetic" /\ args.days_back >= 1

\* C20: for days >= 1 the synthetic generator returns exactly `days` samples
\* with strictly ascending timestamps one day apart, the last one a day
\* before the call time, every value within [5, 150] and every sample with
\* the requested location.
C20_SyntheticSeriesShape ==
    SyntheticMade
    => /\ Len(hist) = args.days_back
       /\ hist[Len(hist)].timestamp = clock - 1
       /\ \A i \in 2..Len(hist) :
              hist[i].timestamp = hist[i - 1].timestamp + 1
       /\ \A i \in 1..Len(hist) :
              /\ hist[i].pm25_value >= 500
              /\ hist[i].pm25_value <= 15000
              /\ hist[i].location = args.location

\* a synthetic series longer than the recent window, after time has passed,
\* one of whose values the clip has raised to 5.00
C20_Witness ==
    /\ SyntheticMade /\ Len(hist) > 90 /\ clock > StartDay
    /\ \E i \in 1..Len(hist) : hist[i].pm25_value = 500
    /\ \E i \in 1..Len(hist) : hist[i].pm25_value > 2000


(***************************************************************************)
(* The bulk-indexing helper.                                               *)
(***************************************************************************)
\* the id the index is expected to hold a row under
ExpectedId(r) ==
    (IF r.location_name = NoLocation THEN "None" ELSE r.location_name)
        \o "|" \o r.pollutant \o "|" \o r.timestamp

\* the rows agree on location, pollutant and timestamp
SameKey(a, b) ==
    /\ a.location_name = b.location_name
    /\ a.pollutant = b.pollutant
    /\ a.timestamp = b.timestamp

\* the last of the rows that has the key of row i
LastOfKey(rows, i) ==
    rows[CHOOSE j \in i..Len(rows) :
            /\ SameKey(rows[j], rows[i])
            /\ \A k \in (j + 1)..Len(rows) : ~SameKey(rows[k], rows[i])]

\* the call returned its count, and the index holds each of its rows once
IndexedOnce(c) ==
    /\ c.returned = Len(c.rows)
    /\ \A i \in 1..Len(c.rows) :
          {d \in c.index : d.id = ExpectedId(c.rows[i])}
              = {[id |-> ExpectedId(c.rows[i]),
                  source |-> LastOfKey(c.rows, i)]}

\* C22: index_docs_idempotent returns 0 for no rows and when the bulk call
\* fails, else the number of rows, and then the index holds exactly one
\* document per location_name|pollutant|@timestamp of the rows; indexing
\* the same list again, or the list with its row repeated, leaves the index
\* as it was after the first time.
C22_IndexDocsIdempotent ==
    /\ \A k \in 1..Len(indexLog) :
          LET c == indexLog[k]
          IN  IF c.rows = <<>> \/ c.raised THEN c.returned = 0
              ELSE IndexedOnce(c)
    /\ Len(indexLog) = 2 /\ ~indexLog[1].raised /\ ~indexLog[2].raised
          /\ indexLog[2].rows \in {indexLog[1].rows,
                                   indexLog[1].rows \o indexLog[1].rows}
       => indexLog[2].index = indexLog[1].index

\* a list with two rows of the same key was indexed, then indexed again
C22_Witness ==
    /\ Len(indexLog) = 2
    /\ ~indexLog[1].raised /\ ~indexLog[2].raised
    /\ Len(indexLog[1].rows) = 2
    /\ indexLog[1].rows[1] # indexLog[1].rows[2]
    /\ SameKey(indexLog[1].rows[1], indexLog[1].rows[2])
    /\ indexLog[2].rows = indexLog[1].rows
    /\ Cardinality(esIndex) = 2


(***************************************************************************)
(* The alert service.                                                      *)
(***************************************************************************)
\* the rows of alert_history of one user's location, by position
RowsOf(user_id, location_id) ==
    {i \in 1..Len(alertHistory) :
        /\ alertHistory[i].user_id = user_id
        /\ alertHistory[i].location_id = location_id}

\* no two rows of the same user and location are less than six hours apart
RowsSixHoursApart ==
    \A i, j \in 1..Len(alertHistory) :
        /\ i < j
        /\ alertHistory[i].user_id = alertHistory[j].user_id
        /\ alertHistory[i].location_id = alertHistory[j].location_id
        => alertHistory[j].sent_at - alertHistory[i].sent_at >= 6

\* the monitored location that pass p has in hand
InHand(p) == Head(passes[p].todo)

\* C21: with check passes one after the other, a location alerted within
\* the last six hours is skipped: a pass that is past the cooldown test of
\* a location finds no row of it younger than six hours, a skipped location
\* gets no lookup, no email and no row in that pass, and no two rows of the
\* same user and location are less than six hours apart.
C21_CooldownSequential ==
    /\ RowsSixHoursApart
    /\ passes[1].skipped
          \cap (passes[1].looked \cup passes[1].mailed \cup passes[1].recorded)
          = {}
    /\ passes[1].pc \in {"lookup", "send", "record"}
          => \A i \in RowsOf(InHand(1).user_id, InHand(1).location_id) :
                alertHistory[i].sent_at <= hour - 6

\* a pass has skipped location 1, alerted less than six hours ago, has
\* looked up location 2 and has come to its end
C21_Witness ==
    /\ passes[1].pc = "done"
    /\ 1 \in passes[1].skipped
    /\ \E i \in RowsOf(1, 1) : alertHistory[i].sent_at > hour - 6
    /\ 2 \in passes[1].looked


\* the threshold of a monitored location
ThresholdOf(location_id) ==
    (CHOOSE l \in {MonitoredLocations[i] : i \in 1..Len(MonitoredLocations)} :
        l.location_id = location_id).threshold_aqi

\* an email for the row was handed to the mail service when it was written
EmailedFor(row) ==
    \E e \in outbox : /\ e.location_id = row.location_id
                      /\ e.aqi = row.aqi
                      /\ e.at <= row.sent_at

\* C23: a pass writes a row only for a location whose alert email was
\* handed to the mail service in that pass: every recorded location was
\* mailed, every row has its email and an AQI at or above the threshold of
\* its location, and a location in hand whose lookup failed, gave no AQI or
\* gave an AQI below the threshold is not on its way to a row.
C23_RecordOnlyAfterEmail ==
    /\ passes[1].recorded \subseteq passes[1].mailed
    /\ \A i \in 1..Len(alertHistory) :
          /\ EmailedFor(alertHistory[i])
          /\ alertHistory[i].aqi >= ThresholdOf(alertHistory[i].location_id)
    /\ passes[1].pc \in {"send", "record"}
          => /\ passes[1].answer.success
             /\ passes[1].answer.overall_aqi # None
             /\ passes[1].answer.overall_aqi >= InHand(1).threshold_aqi

\* a pass without SENDGRID_API_KEY has written a row for location 1 and no
\* email was handed to the mail service
C23_Witness ==
    /\ ~passes[1].key
    /\ 1 \in passes[1].recorded
    /\ outbox = {}
    /\ RowsOf(1, 1) # {}

\* the locations of active users
ActiveLocations ==
    {MonitoredLocations[i].location_id : i \in
        {j \in 1..Len(MonitoredLocations) : MonitoredLocations[j].active}}

\* C28: a failure at one monitored location does not keep a pass from the
\* remaining ones: a pass that is over has processed every location of an
\* active user.
C28_EveryLocationProcessed ==
    passes[1].pc \in {"done", "raised"}
        => passes[1].processed = ActiveLocations

\* a pass is over with an error of the first location, and the second one
\* was never looked at
C28_Witness ==
    /\ passes[1].pc = "raised"
    /\ passes[1].processed = {}
    /\ Len(passes[1].todo) = 2
    /\ 2 \notin passes[1].looked \cup passes[1].skipped


\* no two emails of the same location are less than six hours apart
EmailsSixHoursApart ==
    \A e1, e2 \in outbox :
        e1 # e2 /\ e1.location_id = e2.location_id /\ e1.at <= e2.at
        => e2.at - e1.at >= 6

\* C29: with the check of the scheduler process and a manual check at
\* once, in every interleaving of their steps at most one alert email is
\* sent and at most one row is written for a user's location within six
\* hours.
C29_CooldownConcurrent ==
    RowsSixHoursApart /\ EmailsSixHoursApart

\* both checks have passed the cooldown test of location 1 before either
\* wrote its row: two emails and two rows of the same hour
C29_Witness ==
    /\ 1 \in passes[1].recorded /\ 1 \in passes[1].mailed
    /\ 1 \in passes[2].recorded /\ 1 \in passes[2].mailed
    /\ Cardinality(RowsOf(1, 1)) = 2
    /\ Cardinality({e \in outbox : e.location_id = 1}) = 2

(***************************************************************************)
(* The scheduler.                                                          *)
(***************************************************************************)
\* the scheduler process runs: init_db has returned and no exception has
\* ended it
SchedulerRuns == sched.pc \in {"startup", "job", "loop"}

\* C24: the scheduler keeps running after a failed check.  Once init_db has
\* returned, the first check is started at once; no exception of a check
\* ends the process; and after a job() whose check raised, as after any
\* other, the next hourly check is started as long as the hour of its turn
\* is followed.
C24_SchedulerKeepsRunning ==
    /\ [](sched.pc # "crashed")
    /\ [](sched.pc # "off" /\ sched.pc # "failed_init"
             => passes[1].started >= 1)
    /\ [](sched.pc = "startup"
             => passes[1].caller = "job" /\ sched.runs = 0)
    /\ \A n \in 1..(MaxPasses - 1) :
          (sched.pc = "loop" /\ sched.runs = n /\ sched.failures > 0
               /\ hour < SchedHours)
             ~> (passes[1].started > n /\ SchedulerRuns)

\* the check of the first job has raised, and the next hourly check runs
C24_Witness ==
    /\ sched.pc = "job"
    /\ sched.runs = 1 /\ sched.failures = 1
    /\ passes[1].started = 2 /\ passes[1].pc = "lookup"

=============================================================================
